---- MODULE Spec2Model ----
(***************************************************************************)
(* Flight SQL server dispatch layer (FlightSqlServerBase, server.cpp).     *)
(*                                                                         *)
(* A request reaches one of five entry points.  GetFlightInfo, DoGet and   *)
(* DoPut parse the opaque bytes of the descriptor / ticket as a            *)
(* google::protobuf::Any and walk an else-if chain of any.Is<T>() tests;   *)
(* DoAction compares the action type string; ListActions fills a vector.   *)
(* Every command-specific handler is virtual: the base class returns       *)
(* NotImplemented, a backend may override any subset.                      *)
(*                                                                         *)
(* Spec is the dispatcher in front of any backend.  SpecLifecycle puts it  *)
(* in front of a backend that keeps prepared-statement handles.            *)
(* SpecClient is FlightSqlClient in front of the mock transport of         *)
(* client_test.cc, with the protocol-buffer codec field by field;          *)
(* SpecStatement is a prepared statement of that client, from Prepare to   *)
(* its destruction.  SpecSchema is the callers of the SqlSchema functions, *)
(* SpecMetadata the users of ColumnMetadata and its builder.               *)
(* SpecConcurrent is the dispatcher called by two threads of the host      *)
(* transport at once, each call split at the point where it has parsed its *)
(* Any.                                                                    *)
(***************************************************************************)
EXTENDS Integers, Sequences, FiniteSets, TLC

VARIABLES
    overridden,  \* the handlers the concrete backend overrides (fixed at construction)
    request,     \* the request of the last call: [entry, type, bytes]
    invoked,     \* the handler invocations the last call made, in order
    status,      \* the Status the last call returned
    actions,     \* the vector ListActions filled in the last call (<<>> for other calls)
    slot,        \* the caller's output slot (info / stream / result), reused from call to call
    \* a backend that implements prepared statements
    store,       \* the backend's state of each handle: NeverIssued, Created or Closed
    caller,      \* the client object that sent the last request (0: none)
    closer,      \* per handle, the client object whose Close closed it (0: none)
    \* a FlightSqlClient in front of a mock transport
    op,          \* the client operation called last: [name, options, args]
    calls,       \* the transport calls that operation made on the mock, in order
    returned,    \* what the operation returned: [status, value]
    stmt,        \* the PreparedStatement object the client holds, or <<>>
    mock,        \* the mock transport: the calls it counted since construction and
                 \* the result its DoAction lambda hands out
    run,         \* the names of the operations the test called so far, in order
    \* callers of the SqlSchema functions
    fetched,     \* the schemas handed out so far, in order: [function, schema]
    \* users of ColumnMetadata
    maps,        \* the KeyValueMetadata objects made so far: each its pairs in order
    objects,     \* the builders and ColumnMetadata objects: [class, map]
    last,        \* the last call on one of them: [call, object, arg, result]
    \* entry points called by several threads of the transport at once
    frames,      \* per thread, the call it is in: [pc, request, invoked, status,
                 \* actions, overlapped]
    anys         \* the google::protobuf::Any objects the calls in flight parse into

dispatchVars == <<overridden, request, invoked, status, actions, slot>>

\* State of the other specifications of this module; the server dispatcher
\* neither reads nor writes it.
lifecycleVars == <<store, caller, closer>>

clientVars == <<op, calls, returned, stmt, mock, run>>

libraryVars == <<fetched, maps, objects, last>>

otherVars == <<lifecycleVars, clientVars, libraryVars, frames, anys>>

vars == <<dispatchVars, otherVars>>

----------------------------------------------------------------------------
(* Bounds *)

\* Query / field values are 1..MaxQuery; 0 is the default (unset, empty) field.
MaxQuery == 1

\* Prepared-statement handles are 1..MaxHandle; 0 is the empty handle.
MaxHandle == 2

\* Client objects (PreparedStatement holders) are 1..MaxClient.
MaxClient == 2

\* Repeated fields (table types, info codes) hold at most MaxList elements.
MaxList == 2

\* A test calls at most MaxRun operations on the client and its prepared statement.
MaxRun == 4

\* Callers fetch at most MaxFetch result schemas.
MaxFetch == 3

\* The builders and ColumnMetadata objects made and the pairs their setters
\* appended are at most MaxMade in all.
MaxMade == 4

FieldValues == 0..MaxQuery

----------------------------------------------------------------------------
(* Message types of the pb::sql namespace *)

GetFlightInfoTypes ==
    {"CommandStatementQuery", "CommandPreparedStatementQuery", "CommandGetCatalogs",
     "CommandGetSchemas", "CommandGetTables", "CommandGetTableTypes",
     "CommandGetSqlInfo", "CommandGetPrimaryKeys", "CommandGetExportedKeys",
     "CommandGetImportedKeys"}

MessageTypes ==
    GetFlightInfoTypes \cup
    {"TicketStatementQuery", "CommandStatementUpdate", "CommandGetCrossReference",
     "ActionCreatePreparedStatementRequest", "ActionClosePreparedStatementRequest"}

\* Names a type_url can carry: the message types, a type the protocol does not
\* define, and the empty name.
TypeNames == MessageTypes \cup {"UnknownMessage", ""}

\* A type_url is "<prefix>/<full name>" (slash = TRUE) or a bare name holding no '/'.
TypeUrls == [slash : BOOLEAN, name : TypeNames]

\* The serialized command inside the Any: the field parsed so far and whether
\* the bytes after it are malformed.
Payloads == [arg : FieldValues, bad : BOOLEAN]

EmptyPayload == [arg |-> 0, bad |-> FALSE]

EmptyBytes == [type_url |-> [slash |-> FALSE, name |-> ""], value |-> EmptyPayload,
               bad |-> FALSE]

\* The opaque bytes of a descriptor command, a ticket or an action body, by
\* what a protobuf parser reads from them.
Bytes ==
    \* a well-formed Any around a well-formed or malformed payload
    {[type_url |-> [slash |-> TRUE, name |-> n], value |-> p, bad |-> FALSE] :
        n \in TypeNames \ {""}, p \in {q \in Payloads : q.bad => q.arg = 0}}
    \* a type_url without '/'
    \cup {[type_url |-> [slash |-> FALSE, name |-> n], value |-> EmptyPayload,
           bad |-> FALSE] : n \in TypeNames}
    \* bytes that stop being an Any after the type_url field
    \cup {[type_url |-> [slash |-> TRUE, name |-> n], value |-> EmptyPayload,
           bad |-> TRUE] : n \in TypeNames \ {""}}
    \* bytes that are no Any at all
    \cup {[type_url |-> [slash |-> FALSE, name |-> ""], value |-> EmptyPayload,
           bad |-> TRUE]}

\* A command as a handler receives it.
NoCommand == [type |-> "", arg |-> 0]

DefaultMessage(T) == [type |-> T, arg |-> 0]

----------------------------------------------------------------------------
(* google::protobuf::Any as the dispatcher uses it *)

\* any.ParseFromArray(data, size): the Any holds what was parsed, also when the
\* parse fails; the dispatcher drops the bool.
ParseFromArray(b) ==
    [ok |-> ~b.bad, any |-> [type_url |-> b.type_url, value |-> b.value]]

\* any.Is<T>(): the type_url ends in "/" followed by T's full name.
Is(any, T) == any.type_url.slash /\ any.type_url.name = T

\* Mutant: the payload is checked but never copied into command.
UnpackToKeepingDefault(any, T) ==
    [ok |-> any.type_url.slash /\ any.type_url.name = T /\ ~any.value.bad,
     msg |-> DefaultMessage(T)]

\* An unpacking that does not look at the type_url: the payload is parsed
\* into command whatever message the Any holds.
UnpackToIgnoringType(any, T) ==
    [ok |-> ~any.value.bad, msg |-> [type |-> T, arg |-> any.value.arg]]

\* any.UnpackTo(&command): FALSE and an untouched (default) command when the
\* Any is not a T; otherwise the payload is parsed into command, which keeps
\* what was read when the payload is malformed.  The dispatcher drops the bool.
UnpackTo(any, T) ==
    IF ~Is(any, T)
    THEN [ok |-> FALSE, msg |-> DefaultMessage(T)]
    ELSE [ok |-> ~any.value.bad, msg |-> [type |-> T, arg |-> any.value.arg]]

\* Mutant: the type_url is the bare full name, without the "<prefix>/".
PackFromBareName(command) ==
    [type_url |-> [slash |-> FALSE, name |-> command.type],
     value |-> [arg |-> command.arg, bad |-> FALSE], bad |-> FALSE]

\* any.PackFrom(command); any.SerializeAsString()
PackFrom(command) ==
    [type_url |-> [slash |-> TRUE, name |-> command.type],
     value |-> [arg |-> command.arg, bad |-> FALSE], bad |-> FALSE]

----------------------------------------------------------------------------
(* Protocol-buffer messages, field by field *)

\* A string is a number of FieldValues (0: the empty string).  An optional
\* field is <<>> when absent and <<v>> when present; a repeated field is the
\* sequence of its elements.
OptionalStrings == {<<>>} \cup {<<v>> : v \in FieldValues}

RECURSIVE ListsUpTo(_)
ListsUpTo(n) ==
    IF n = 0 THEN {<<>>}
    ELSE ListsUpTo(n - 1) \cup
         {Append(l, v) : l \in {m \in ListsUpTo(n - 1) : Len(m) = n - 1}, v \in FieldValues}

Lists == ListsUpTo(MaxList)

\* The fields of each message type in field-number order, by the setter the
\* tests call and the kind of the field: "optional" (with presence), "string"
\* and "bool" (no presence: the default value is not written), "repeated"
\* (one entry per element), "packed" (one entry holding all elements), "bytes"
\* (no presence: empty bytes are not written).
FieldsOf(T) ==
    CASE T \in {"CommandStatementQuery", "CommandStatementUpdate",
                "ActionCreatePreparedStatementRequest"} ->
            << [name |-> "query", kind |-> "string"] >>
      [] T \in {"CommandPreparedStatementQuery", "ActionClosePreparedStatementRequest"} ->
            << [name |-> "prepared_statement_handle", kind |-> "string"] >>
      [] T = "TicketStatementQuery" ->
            << [name |-> "statement_handle", kind |-> "string"] >>
      [] T = "CommandGetSchemas" ->
            << [name |-> "catalog", kind |-> "optional"],
               [name |-> "schema_filter_pattern", kind |-> "optional"] >>
      [] T = "CommandGetTables" ->
            << [name |-> "catalog", kind |-> "optional"],
               [name |-> "schema_filter_pattern", kind |-> "optional"],
               [name |-> "table_name_filter_pattern", kind |-> "optional"],
               [name |-> "table_types", kind |-> "repeated"],
               [name |-> "include_schema", kind |-> "bool"] >>
      [] T = "CommandGetSqlInfo" ->
            << [name |-> "info", kind |-> "packed"] >>
      [] T \in {"CommandGetPrimaryKeys", "CommandGetExportedKeys",
                "CommandGetImportedKeys"} ->
            << [name |-> "catalog", kind |-> "optional"],
               [name |-> "schema", kind |-> "optional"],
               [name |-> "table", kind |-> "string"] >>
      [] T = "ActionCreatePreparedStatementResult" ->
            << [name |-> "prepared_statement_handle", kind |-> "string"],
               [name |-> "parameter_schema", kind |-> "bytes"] >>
      [] T = "CommandGetCrossReference" ->
            << [name |-> "pk_catalog", kind |-> "optional"],
               [name |-> "pk_schema", kind |-> "optional"],
               [name |-> "pk_table", kind |-> "string"],
               [name |-> "fk_catalog", kind |-> "optional"],
               [name |-> "fk_schema", kind |-> "optional"],
               [name |-> "fk_table", kind |-> "string"] >>
      [] OTHER -> << >>

FieldNames(T) == {FieldsOf(T)[i].name : i \in 1..Len(FieldsOf(T))}

FieldNumber(T, n) == CHOOSE i \in 1..Len(FieldsOf(T)) : FieldsOf(T)[i].name = n

\* The default value of a field of this kind (a freshly constructed message).
DefaultOf(kind) ==
    CASE kind = "optional" -> << >>
      [] kind = "string" -> 0
      [] kind = "bool" -> FALSE
      [] OTHER -> << >>

\* Mutant: a present but empty optional string is not written.
WriteFieldDroppingEmpty(kind, i, v) ==
    CASE kind = "optional" -> IF v = << >> \/ v = <<0>> THEN << >>
                              ELSE << [field |-> i, value |-> v[1]] >>
      [] kind = "string" -> IF v = 0 THEN << >> ELSE << [field |-> i, value |-> v] >>
      [] kind = "bool" -> IF v THEN << [field |-> i, value |-> v] >> ELSE << >>
      [] kind = "repeated" -> [k \in 1..Len(v) |-> [field |-> i, value |-> v[k]]]
      [] OTHER -> IF v = << >> THEN << >> ELSE << [field |-> i, value |-> v] >>

\* Mutant: a repeated field is written last element first.
WriteFieldReversed(kind, i, v) ==
    CASE kind = "optional" -> IF v = << >> THEN << >>
                              ELSE << [field |-> i, value |-> v[1]] >>
      [] kind = "string" -> IF v = 0 THEN << >> ELSE << [field |-> i, value |-> v] >>
      [] kind = "bool" -> IF v THEN << [field |-> i, value |-> v] >> ELSE << >>
      [] kind = "repeated" ->
            [k \in 1..Len(v) |-> [field |-> i, value |-> v[Len(v) + 1 - k]]]
      [] OTHER -> IF v = << >> THEN << >>
                  ELSE << [field |-> i, value |-> [k \in 1..Len(v) |-> v[Len(v) + 1 - k]]] >>

\* The wire entries one field contributes to the serialized message.
WriteField(kind, i, v) ==
    CASE kind = "optional" -> IF v = << >> THEN << >>
                              ELSE << [field |-> i, value |-> v[1]] >>
      [] kind = "string" -> IF v = 0 THEN << >> ELSE << [field |-> i, value |-> v] >>
      [] kind = "bool" -> IF v THEN << [field |-> i, value |-> v] >> ELSE << >>
      [] kind = "repeated" -> [k \in 1..Len(v) |-> [field |-> i, value |-> v[k]]]
      [] OTHER -> IF v = << >> THEN << >> ELSE << [field |-> i, value |-> v] >>

RECURSIVE SerializeFrom(_, _)
SerializeFrom(command, i) ==
    IF i > Len(FieldsOf(command.type)) THEN << >>
    ELSE LET f == FieldsOf(command.type)[i]
         IN  WriteField(f.kind, i, command.fields[f.name]) \o SerializeFrom(command, i + 1)

\* Mutant: no field is written.
SerializeNothing(command) == << >>

\* command.SerializeAsString(): the entries of the fields in field-number order.
SerializeAsString(command) == SerializeFrom(command, 1)

RECURSIVE Concat(_, _)
Concat(entries, k) ==
    IF k > Len(entries) THEN << >> ELSE entries[k].value \o Concat(entries, k + 1)

\* The value a parser leaves in a field after reading the wire entries: the
\* last entry of a singular field, every entry of a repeated one.
ReadField(kind, i, wire) ==
    LET entries == SelectSeq(wire, LAMBDA e : e.field = i)
    IN  CASE kind = "optional" ->
                IF entries = << >> THEN << >> ELSE << entries[Len(entries)].value >>
          [] kind \in {"string", "bool", "bytes"} ->
                IF entries = << >> THEN DefaultOf(kind) ELSE entries[Len(entries)].value
          [] kind = "repeated" -> [k \in 1..Len(entries) |-> entries[k].value]
          [] OTHER -> Concat(entries, 1)

\* command.ParseFromString(wire) for a command of type T.
ParseFields(T, wire) ==
    [n \in FieldNames(T) |->
        ReadField(FieldsOf(T)[FieldNumber(T, n)].kind, FieldNumber(T, n), wire)]

\* getDescriptor(command): any.PackFrom(command), any.SerializeAsString(),
\* FlightDescriptor::Command(string).  The payload of the Any is the
\* serialized command.
getDescriptor(command) ==
    PackFrom([type |-> command.type, arg |-> SerializeAsString(command)])

\* What the receiving side reads back from the bytes: the Any, the type its
\* type_url names, and the command unpacked as that type.
DecodedCommand(bytes) ==
    LET any == ParseFromArray(bytes).any
        T == any.type_url.name
    IN  [type |-> T,
         fields |-> IF Is(any, T) THEN ParseFields(T, UnpackTo(any, T).msg.arg)
                    ELSE ParseFields(T, << >>)]

----------------------------------------------------------------------------
(* Arrow schemas *)

\* arrow::field(name, type, nullable = true)
Field(name, type, nullable) == [name |-> name, type |-> type, nullable |-> nullable]

\* The parameter schemas the tests use: {id: int64} and {field0: utf8, field1: uint8}.
ParameterSchemas ==
    {<< Field("id", "int64", TRUE) >>,
     << Field("field0", "utf8", TRUE), Field("field1", "uint8", TRUE) >>}

\* The type of a field in a serialized schema: a type kind; an integer type
\* carries its width and signedness.
TypeToFlatbuffer(type) ==
    CASE type = "utf8" -> [kind |-> "Utf8", bitWidth |-> 0, is_signed |-> FALSE]
      [] type = "binary" -> [kind |-> "Binary", bitWidth |-> 0, is_signed |-> FALSE]
      [] type = "uint8" -> [kind |-> "Int", bitWidth |-> 8, is_signed |-> FALSE]
      [] type = "int32" -> [kind |-> "Int", bitWidth |-> 32, is_signed |-> TRUE]
      [] type = "int64" -> [kind |-> "Int", bitWidth |-> 64, is_signed |-> TRUE]

\* Mutant: the schema message is written without its fields.
SerializeSchemaWithoutFields(schema) == << [message |-> "Schema", fields |-> << >>] >>

\* arrow::ipc::SerializeSchema(schema): one Schema message holding the fields
\* in order.  The bytes of a schema without fields are not empty.
SerializeSchema(schema) ==
    << [message |-> "Schema",
        fields |-> [i \in 1..Len(schema) |->
                      [name |-> schema[i].name, nullable |-> schema[i].nullable,
                       type |-> TypeToFlatbuffer(schema[i].type)]]] >>

\* arrow::ipc::ReadSchema(reader): the fields of the Schema message, each type
\* rebuilt from its kind, width and signedness.
ReadSchema(buffer) ==
    [i \in 1..Len(buffer[1].fields) |->
        LET f == buffer[1].fields[i]
        IN  Field(f.name,
                  CASE f.type.kind = "Utf8" -> "utf8"
                    [] f.type.kind = "Binary" -> "binary"
                    [] f.type.kind = "Int" ->
                         IF f.type.is_signed
                         THEN IF f.type.bitWidth = 32 THEN "int32" ELSE "int64"
                         ELSE IF f.type.bitWidth = 8 THEN "uint8" ELSE "uint64",
                  f.nullable)]

\* The ActionCreatePreparedStatementResult the DoAction lambda of the tests
\* fills in: the handle, and the serialized parameter schema when the test
\* has one (schema is <<>> or <<s>>).
CreateResult(h, schema) ==
    [type |-> "ActionCreatePreparedStatementResult",
     fields |-> [prepared_statement_handle |-> h,
                 parameter_schema |-> IF schema = << >> THEN << >>
                                      ELSE SerializeSchema(schema[1])]]

----------------------------------------------------------------------------
(* SqlSchema: the result schemas of the metadata queries *)

GetCatalogsSchema == << Field("catalog_name", "utf8", TRUE) >>

\* Mutant: schema_name is nullable.
GetSchemasSchemaAllNullable ==
    << Field("catalog_name", "utf8", TRUE), Field("schema_name", "utf8", TRUE) >>

GetSchemasSchema ==
    << Field("catalog_name", "utf8", TRUE), Field("schema_name", "utf8", FALSE) >>

GetTablesSchema ==
    << Field("catalog_name", "utf8", TRUE), Field("schema_name", "utf8", TRUE),
       Field("table_name", "utf8", TRUE), Field("table_type", "utf8", TRUE) >>

\* Mutant: table_schema is a string column.
GetTablesSchemaWithStringSchema ==
    << Field("catalog_name", "utf8", TRUE), Field("schema_name", "utf8", TRUE),
       Field("table_name", "utf8", TRUE), Field("table_type", "utf8", TRUE),
       Field("table_schema", "utf8", TRUE) >>

GetTablesSchemaWithIncludedSchema ==
    << Field("catalog_name", "utf8", TRUE), Field("schema_name", "utf8", TRUE),
       Field("table_name", "utf8", TRUE), Field("table_type", "utf8", TRUE),
       Field("table_schema", "binary", TRUE) >>

GetTableTypesSchema == << Field("table_type", "utf8", TRUE) >>

\* Mutant: key_sequence is a 32-bit column.
GetPrimaryKeysSchemaInt32 ==
    << Field("catalog_name", "utf8", TRUE), Field("schema_name", "utf8", TRUE),
       Field("table_name", "utf8", TRUE), Field("column_name", "utf8", TRUE),
       Field("key_sequence", "int32", TRUE), Field("key_name", "utf8", TRUE) >>

GetPrimaryKeysSchema ==
    << Field("catalog_name", "utf8", TRUE), Field("schema_name", "utf8", TRUE),
       Field("table_name", "utf8", TRUE), Field("column_name", "utf8", TRUE),
       Field("key_sequence", "int64", TRUE), Field("key_name", "utf8", TRUE) >>

\* Mutant: the key names come before key_sequence.
GetImportedAndExportedKeysSchemaNamesFirst ==
    << Field("pk_catalog_name", "utf8", TRUE), Field("pk_schema_name", "utf8", TRUE),
       Field("pk_table_name", "utf8", FALSE), Field("pk_column_name", "utf8", FALSE),
       Field("fk_catalog_name", "utf8", TRUE), Field("fk_schema_name", "utf8", TRUE),
       Field("fk_table_name", "utf8", FALSE), Field("fk_column_name", "utf8", FALSE),
       Field("fk_key_name", "utf8", TRUE), Field("pk_key_name", "utf8", TRUE),
       Field("key_sequence", "int32", FALSE),
       Field("update_rule", "uint8", FALSE), Field("delete_rule", "uint8", FALSE) >>

GetImportedAndExportedKeysSchema ==
    << Field("pk_catalog_name", "utf8", TRUE), Field("pk_schema_name", "utf8", TRUE),
       Field("pk_table_name", "utf8", FALSE), Field("pk_column_name", "utf8", FALSE),
       Field("fk_catalog_name", "utf8", TRUE), Field("fk_schema_name", "utf8", TRUE),
       Field("fk_table_name", "utf8", FALSE), Field("fk_column_name", "utf8", FALSE),
       Field("key_sequence", "int32", FALSE),
       Field("fk_key_name", "utf8", TRUE), Field("pk_key_name", "utf8", TRUE),
       Field("update_rule", "uint8", FALSE), Field("delete_rule", "uint8", FALSE) >>

----------------------------------------------------------------------------
(* Status codes and handlers *)

OK == "OK"
Invalid == "Invalid"                \* Status::Invalid, the spec's InvalidRequest
NotImplemented == "NotImplemented"  \* Status::NotImplemented

\* What an overriding backend handler may return.
HandlerReturns == {OK, Invalid, "IOError"}

GetFlightInfoHandlers ==
    {"GetFlightInfoStatement", "GetFlightInfoPreparedStatement", "GetFlightInfoCatalogs",
     "GetFlightInfoSchemas", "GetFlightInfoTables", "GetFlightInfoTableTypes",
     "GetFlightInfoSqlInfo", "GetFlightInfoPrimaryKeys", "GetFlightInfoExportedKeys",
     "GetFlightInfoImportedKeys"}

DoGetHandlers ==
    {"DoGetStatement", "DoGetPreparedStatement", "DoGetCatalogs", "DoGetSchemas",
     "DoGetTables", "DoGetTableTypes", "DoGetSqlInfo", "DoGetPrimaryKeys",
     "DoGetExportedKeys", "DoGetImportedKeys"}

DoPutHandlers == {"DoPutCommandStatementUpdate", "DoPutPreparedStatement"}

DoActionHandlers == {"CreatePreparedStatement", "ClosePreparedStatement"}

Handlers == GetFlightInfoHandlers \cup DoGetHandlers \cup DoPutHandlers \cup DoActionHandlers

\* The backends considered: the base class alone, a backend that supports
\* statements and prepared statements only, and one that overrides everything.
StatementBackend ==
    {"GetFlightInfoStatement", "DoGetStatement", "DoPutCommandStatementUpdate",
     "GetFlightInfoPreparedStatement", "DoGetPreparedStatement",
     "DoPutPreparedStatement", "CreatePreparedStatement", "ClosePreparedStatement"}

Backends == {{}, StatementBackend, Handlers}

\* Mutant: one base-class handler was left returning OK.
DefaultHandlerReturnsOK(h) == IF h = "DoGetCatalogs" THEN OK ELSE NotImplemented

\* The base-class body of a handler: return Status::NotImplemented("... not implemented").
DefaultHandler(h) == NotImplemented

\* The virtual call: the backend's override returns r, the base class its default.
Handler(h, r) == IF h \in overridden THEN r ELSE DefaultHandler(h)

\* Mutant: the handler is tried a second time when it fails.
CallWithRetry(h, command, r) ==
    LET st == Handler(h, r)
        one == [handler |-> h, command |-> command, returned |-> st]
    IN  [invoked |-> IF st = OK THEN <<one>> ELSE <<one, one>>, status |-> st,
         emits |-> st = OK]

\* "return Handler(command, ...)": one invocation, whose Status is the call's
\* Status.  The handler receives the caller's output slot; an override that
\* returns OK has filled it, the base class and a failing override have not.
Call(h, command, r) ==
    LET st == Handler(h, r)
    IN  [invoked |-> <<[handler |-> h, command |-> command, returned |-> st]>>,
         status |-> st, emits |-> st = OK]

\* Mutant: the rejecting path resets the caller's slot to an empty result.
RejectEmittingEmpty == [invoked |-> <<>>, status |-> Invalid, emits |-> TRUE]

\* "return Status::Invalid("The defined request is invalid.")": the output
\* slot is not touched.
Reject == [invoked |-> <<>>, status |-> Invalid, emits |-> FALSE]

----------------------------------------------------------------------------
(* The else-if chains: in source order, the type tested with any.Is<T>(), the *)
(* handler called, and whether the unpacked command is passed to it.         *)

\* Mutant: the prepared-statement branch calls the plain statement handler.
GetFlightInfoBranchesPreparedAsStatement ==
    << [type |-> "CommandStatementQuery", handler |-> "GetFlightInfoStatement", passes |-> TRUE],
       [type |-> "CommandPreparedStatementQuery", handler |-> "GetFlightInfoStatement", passes |-> TRUE],
       [type |-> "CommandGetCatalogs", handler |-> "GetFlightInfoCatalogs", passes |-> FALSE],
       [type |-> "CommandGetSchemas", handler |-> "GetFlightInfoSchemas", passes |-> TRUE],
       [type |-> "CommandGetTables", handler |-> "GetFlightInfoTables", passes |-> TRUE],
       [type |-> "CommandGetTableTypes", handler |-> "GetFlightInfoTableTypes", passes |-> FALSE],
       [type |-> "CommandGetSqlInfo", handler |-> "GetFlightInfoSqlInfo", passes |-> TRUE],
       [type |-> "CommandGetPrimaryKeys", handler |-> "GetFlightInfoPrimaryKeys", passes |-> TRUE],
       [type |-> "CommandGetExportedKeys", handler |-> "GetFlightInfoExportedKeys", passes |-> TRUE],
       [type |-> "CommandGetImportedKeys", handler |-> "GetFlightInfoImportedKeys", passes |-> TRUE] >>

\* Mutant: the CommandGetTables branch calls the table-types handler.
GetFlightInfoBranchesWrongHandler ==
    << [type |-> "CommandStatementQuery", handler |-> "GetFlightInfoStatement", passes |-> TRUE],
       [type |-> "CommandPreparedStatementQuery", handler |-> "GetFlightInfoPreparedStatement", passes |-> TRUE],
       [type |-> "CommandGetCatalogs", handler |-> "GetFlightInfoCatalogs", passes |-> FALSE],
       [type |-> "CommandGetSchemas", handler |-> "GetFlightInfoSchemas", passes |-> TRUE],
       [type |-> "CommandGetTables", handler |-> "GetFlightInfoTableTypes", passes |-> TRUE],
       [type |-> "CommandGetTableTypes", handler |-> "GetFlightInfoTableTypes", passes |-> FALSE],
       [type |-> "CommandGetSqlInfo", handler |-> "GetFlightInfoSqlInfo", passes |-> TRUE],
       [type |-> "CommandGetPrimaryKeys", handler |-> "GetFlightInfoPrimaryKeys", passes |-> TRUE],
       [type |-> "CommandGetExportedKeys", handler |-> "GetFlightInfoExportedKeys", passes |-> TRUE],
       [type |-> "CommandGetImportedKeys", handler |-> "GetFlightInfoImportedKeys", passes |-> TRUE] >>

GetFlightInfoBranches ==
    << [type |-> "CommandStatementQuery", handler |-> "GetFlightInfoStatement", passes |-> TRUE],
       [type |-> "CommandPreparedStatementQuery", handler |-> "GetFlightInfoPreparedStatement", passes |-> TRUE],
       [type |-> "CommandGetCatalogs", handler |-> "GetFlightInfoCatalogs", passes |-> FALSE],
       [type |-> "CommandGetSchemas", handler |-> "GetFlightInfoSchemas", passes |-> TRUE],
       [type |-> "CommandGetTables", handler |-> "GetFlightInfoTables", passes |-> TRUE],
       [type |-> "CommandGetTableTypes", handler |-> "GetFlightInfoTableTypes", passes |-> FALSE],
       [type |-> "CommandGetSqlInfo", handler |-> "GetFlightInfoSqlInfo", passes |-> TRUE],
       [type |-> "CommandGetPrimaryKeys", handler |-> "GetFlightInfoPrimaryKeys", passes |-> TRUE],
       [type |-> "CommandGetExportedKeys", handler |-> "GetFlightInfoExportedKeys", passes |-> TRUE],
       [type |-> "CommandGetImportedKeys", handler |-> "GetFlightInfoImportedKeys", passes |-> TRUE] >>

\* Mutant: DoGet tests for the query command instead of the statement ticket.
DoGetBranchesQueryForTicket ==
    << [type |-> "CommandStatementQuery", handler |-> "DoGetStatement", passes |-> TRUE],
       [type |-> "CommandPreparedStatementQuery", handler |-> "DoGetPreparedStatement", passes |-> TRUE],
       [type |-> "CommandGetCatalogs", handler |-> "DoGetCatalogs", passes |-> FALSE],
       [type |-> "CommandGetSchemas", handler |-> "DoGetSchemas", passes |-> TRUE],
       [type |-> "CommandGetTables", handler |-> "DoGetTables", passes |-> TRUE],
       [type |-> "CommandGetTableTypes", handler |-> "DoGetTableTypes", passes |-> FALSE],
       [type |-> "CommandGetSqlInfo", handler |-> "DoGetSqlInfo", passes |-> TRUE],
       [type |-> "CommandGetPrimaryKeys", handler |-> "DoGetPrimaryKeys", passes |-> TRUE],
       [type |-> "CommandGetExportedKeys", handler |-> "DoGetExportedKeys", passes |-> TRUE],
       [type |-> "CommandGetImportedKeys", handler |-> "DoGetImportedKeys", passes |-> TRUE] >>

DoGetBranches ==
    << [type |-> "TicketStatementQuery", handler |-> "DoGetStatement", passes |-> TRUE],
       [type |-> "CommandPreparedStatementQuery", handler |-> "DoGetPreparedStatement", passes |-> TRUE],
       [type |-> "CommandGetCatalogs", handler |-> "DoGetCatalogs", passes |-> FALSE],
       [type |-> "CommandGetSchemas", handler |-> "DoGetSchemas", passes |-> TRUE],
       [type |-> "CommandGetTables", handler |-> "DoGetTables", passes |-> TRUE],
       [type |-> "CommandGetTableTypes", handler |-> "DoGetTableTypes", passes |-> FALSE],
       [type |-> "CommandGetSqlInfo", handler |-> "DoGetSqlInfo", passes |-> TRUE],
       [type |-> "CommandGetPrimaryKeys", handler |-> "DoGetPrimaryKeys", passes |-> TRUE],
       [type |-> "CommandGetExportedKeys", handler |-> "DoGetExportedKeys", passes |-> TRUE],
       [type |-> "CommandGetImportedKeys", handler |-> "DoGetImportedKeys", passes |-> TRUE] >>

\* A DoPut that routes by the tag alone, through the chain of DoGet.
DoPutBranchesOfDoGet == DoGetBranches

\* Mutant: DoPut also accepts a plain statement query as an update.
DoPutBranchesExtraQuery ==
    << [type |-> "CommandStatementUpdate", handler |-> "DoPutCommandStatementUpdate", passes |-> TRUE],
       [type |-> "CommandPreparedStatementQuery", handler |-> "DoPutPreparedStatement", passes |-> TRUE],
       [type |-> "CommandStatementQuery", handler |-> "DoPutCommandStatementUpdate", passes |-> TRUE] >>

DoPutBranches ==
    << [type |-> "CommandStatementUpdate", handler |-> "DoPutCommandStatementUpdate", passes |-> TRUE],
       [type |-> "CommandPreparedStatementQuery", handler |-> "DoPutPreparedStatement", passes |-> TRUE] >>

\* The first branch of the chain whose any.Is<T>() test succeeds; 0 when the
\* chain falls through.
RECURSIVE FirstMatch(_, _, _)
FirstMatch(any, branches, i) ==
    IF i > Len(branches) THEN 0
    ELSE IF Is(any, branches[i].type) THEN i
    ELSE FirstMatch(any, branches, i + 1)

\* The handler the chain selects for these bytes; "" when it falls through.
RoutedHandler(bytes, branches) ==
    LET i == FirstMatch(ParseFromArray(bytes).any, branches, 1)
    IN  IF i = 0 THEN "" ELSE branches[i].handler

\* What the selected handler may return: the backend's choice when its
\* override runs; nothing to choose otherwise.
HandlerChoices(h) == IF h \in overridden THEN HandlerReturns ELSE {OK}

\* Parse the bytes, walk the chain, unpack and call the handler of the branch
\* taken, or fall through to Status::Invalid.
Dispatch(bytes, branches, r) ==
    LET any == ParseFromArray(bytes).any
        i == FirstMatch(any, branches, 1)
    IN  IF i = 0 THEN Reject
        ELSE LET command == UnpackTo(any, branches[i].type).msg
             IN  Call(branches[i].handler,
                      IF branches[i].passes THEN command ELSE NoCommand, r)

----------------------------------------------------------------------------
(* Actions *)

FLIGHT_SQL_CREATE_PREPARED_STATEMENT == [type |-> "CreatePreparedStatement"]
FLIGHT_SQL_CLOSE_PREPARED_STATEMENT == [type |-> "ClosePreparedStatement"]

\* Action type names a caller may send.
ActionTypeNames ==
    {"CreatePreparedStatement", "ClosePreparedStatement", "createpreparedstatement",
     "CreatePreparedStatementX", "ClosePreparedStatemen", ""}

\* Action bodies a caller may send.
ActionBodies ==
    {b \in Bytes : b.type_url.name \in
        {"ActionCreatePreparedStatementRequest", "ActionClosePreparedStatementRequest",
         "UnknownMessage", ""}}

\* Mutant: the two branches call each other's handler.
DoActionBranchesSwapped ==
    << [type |-> FLIGHT_SQL_CREATE_PREPARED_STATEMENT.type,
        message |-> "ActionCreatePreparedStatementRequest",
        handler |-> "ClosePreparedStatement"],
       [type |-> FLIGHT_SQL_CLOSE_PREPARED_STATEMENT.type,
        message |-> "ActionClosePreparedStatementRequest",
        handler |-> "CreatePreparedStatement"] >>

\* The two branches of DoAction, in source order: the type name compared with
\* action.type, the request type the body is unpacked to, the handler called.
DoActionBranches ==
    << [type |-> FLIGHT_SQL_CREATE_PREPARED_STATEMENT.type,
        message |-> "ActionCreatePreparedStatementRequest",
        handler |-> "CreatePreparedStatement"],
       [type |-> FLIGHT_SQL_CLOSE_PREPARED_STATEMENT.type,
        message |-> "ActionClosePreparedStatementRequest",
        handler |-> "ClosePreparedStatement"] >>

RECURSIVE FirstActionMatch(_, _, _)
FirstActionMatch(type, branches, i) ==
    IF i > Len(branches) THEN 0
    ELSE IF type = branches[i].type THEN i
    ELSE FirstActionMatch(type, branches, i + 1)

\* DoAction's body: the branch is chosen by action.type alone; the body is
\* parsed and unpacked inside the branch, both bools dropped.
DispatchAction(type, body, r) ==
    LET i == FirstActionMatch(type, DoActionBranches, 1)
    IN  IF i = 0 THEN Reject
        ELSE LET any == ParseFromArray(body).any
                 command == UnpackTo(any, DoActionBranches[i].message).msg
             IN  Call(DoActionBranches[i].handler, command, r)

\* Mutant: the two entries are listed in the other order.
ListActionsResultReversed ==
    <<FLIGHT_SQL_CLOSE_PREPARED_STATEMENT, FLIGHT_SQL_CREATE_PREPARED_STATEMENT>>

\* Mutant: only the create action is advertised.
ListActionsResultCreateOnly == <<FLIGHT_SQL_CREATE_PREPARED_STATEMENT>>

\* The handler DoAction selects for this action type; "" when it has none.
RoutedAction(type) ==
    LET i == FirstActionMatch(type, DoActionBranches, 1)
    IN  IF i = 0 THEN "" ELSE DoActionBranches[i].handler

\* "*actions = {CREATE, CLOSE}"
ListActionsResult ==
    <<FLIGHT_SQL_CREATE_PREPARED_STATEMENT, FLIGHT_SQL_CLOSE_PREPARED_STATEMENT>>

----------------------------------------------------------------------------
(* Entry points *)

\* What a finished call leaves in the caller's slot.
SlotAfter(res) == IF res.emits THEN "set" ELSE slot

GetFlightInfo ==
    \E cmd \in Bytes :
      \E r \in HandlerChoices(RoutedHandler(cmd, GetFlightInfoBranches)) :
        LET res == Dispatch(cmd, GetFlightInfoBranches, r)
        IN  /\ request' = [entry |-> "GetFlightInfo", type |-> "", bytes |-> cmd]
            /\ invoked' = res.invoked
            /\ status' = res.status
            /\ actions' = <<>>
            /\ slot' = SlotAfter(res)
            /\ UNCHANGED <<overridden, otherVars>>

DoGet ==
    \E ticket \in Bytes :
      \E r \in HandlerChoices(RoutedHandler(ticket, DoGetBranches)) :
        LET res == Dispatch(ticket, DoGetBranches, r)
        IN  /\ request' = [entry |-> "DoGet", type |-> "", bytes |-> ticket]
            /\ invoked' = res.invoked
            /\ status' = res.status
            /\ actions' = <<>>
            /\ slot' = SlotAfter(res)
            /\ UNCHANGED <<overridden, otherVars>>

\* DoPut has no output slot: the handler answers through the metadata writer.
DoPut ==
    \E cmd \in Bytes :
      \E r \in HandlerChoices(RoutedHandler(cmd, DoPutBranches)) :
        LET res == Dispatch(cmd, DoPutBranches, r)
        IN  /\ request' = [entry |-> "DoPut", type |-> "", bytes |-> cmd]
            /\ invoked' = res.invoked
            /\ status' = res.status
            /\ actions' = <<>>
            /\ UNCHANGED <<overridden, slot, otherVars>>

DoAction ==
    \E type \in ActionTypeNames, body \in ActionBodies :
      \E r \in HandlerChoices(RoutedAction(type)) :
        LET res == DispatchAction(type, body, r)
        IN  /\ request' = [entry |-> "DoAction", type |-> type, bytes |-> body]
            /\ invoked' = res.invoked
            /\ status' = res.status
            /\ actions' = <<>>
            /\ slot' = SlotAfter(res)
            /\ UNCHANGED <<overridden, otherVars>>

ListActions ==
    /\ request' = [entry |-> "ListActions", type |-> "", bytes |-> EmptyBytes]
    /\ invoked' = <<>>
    /\ actions' = ListActionsResult
    /\ status' = OK
    /\ UNCHANGED <<overridden, slot, otherVars>>

\* No call made yet.
NoRequest == [entry |-> "none", type |-> "", bytes |-> EmptyBytes]

DispatchInit ==
    /\ request = NoRequest
    /\ invoked = <<>>
    /\ status = OK
    /\ actions = <<>>
    /\ slot = "null"

Handles == 1..MaxHandle

ClientObjects == 1..MaxClient

LifecycleInit ==
    /\ store = [h \in Handles |-> "NeverIssued"]
    /\ caller = 0
    /\ closer = [h \in Handles |-> 0]

\* A client and a mock transport as every test constructs them: no operation
\* called, no transport call recorded, no prepared statement held.
NoOperation == [name |-> "none", options |-> "", args |-> << >>]

ClientInit ==
    /\ op = NoOperation
    /\ calls = << >>
    /\ returned = [status |-> OK, value |-> << >>]
    /\ stmt = << >>
    /\ mock = [counted |-> [DoAction |-> 0, DoPut |-> 0, GetFlightInfo |-> 0],
               result |-> CreateResult(0, << >>)]
    /\ run = << >>

\* No SqlSchema function called, no ColumnMetadata object made.
LibraryInit ==
    /\ fetched = << >>
    /\ maps = << >>
    /\ objects = << >>
    /\ last = [call |-> "none", object |-> 0, arg |-> << >>, result |-> << >>]

\* The threads of the host transport that call the entry points.
Threads == {"first", "second"}

\* A thread that is in no call.
NoCall ==
    [pc |-> "idle", request |-> NoRequest, invoked |-> << >>, status |-> OK,
     actions |-> << >>, overlapped |-> FALSE]

\* All calls parse into one Any, as they would into a data member.
AnyOfMember(t) == "first"

\* "google::protobuf::Any any;": a local of the call, so each call in flight
\* has an Any of its own.
AnyOf(t) == t

OtherInit ==
    /\ LifecycleInit
    /\ ClientInit
    /\ LibraryInit
    /\ frames = [t \in Threads |-> NoCall]
    /\ anys = [t \in Threads |-> ParseFromArray(EmptyBytes).any]

Init ==
    /\ overridden \in Backends
    /\ DispatchInit
    /\ OtherInit

Next == GetFlightInfo \/ DoGet \/ DoPut \/ DoAction \/ ListActions

Spec == Init /\ [][Next]_vars

----------------------------------------------------------------------------
(* The entry points called concurrently.  The dispatcher has no data member *)
(* and starts no thread; a call is split where it has parsed the bytes     *)
(* into its Any, before it walks the chain.                                *)

\* A thread calls an entry point.  GetFlightInfo, DoGet and DoPut parse the
\* bytes into the call's Any; DoAction compares the type first and parses the
\* body inside the branch taken, or returns Invalid; ListActions returns at once.
Enter(t) ==
    /\ frames[t].pc = "idle"
    /\ \/ \E entry \in {"GetFlightInfo", "DoGet", "DoPut"}, T \in MessageTypes :
             LET bytes == PackFrom([type |-> T, arg |-> 1])
             IN  /\ frames' = [frames EXCEPT ![t] =
                        [NoCall EXCEPT !.pc = "parsed",
                                       !.request = [entry |-> entry, type |-> "",
                                                    bytes |-> bytes]]]
                 /\ anys' = [anys EXCEPT ![AnyOf(t)] = ParseFromArray(bytes).any]
       \/ \E type \in ActionTypeNames,
              T \in {DoActionBranches[i].message : i \in DOMAIN DoActionBranches} :
             LET body == PackFrom([type |-> T, arg |-> 1])
                 req == [entry |-> "DoAction", type |-> type, bytes |-> body]
             IN  IF FirstActionMatch(type, DoActionBranches, 1) = 0
                 THEN /\ frames' = [frames EXCEPT ![t] =
                             [NoCall EXCEPT !.pc = "returned", !.request = req,
                                            !.status = Reject.status]]
                      /\ UNCHANGED anys
                 ELSE /\ frames' = [frames EXCEPT ![t] =
                             [NoCall EXCEPT !.pc = "parsed", !.request = req]]
                      /\ anys' = [anys EXCEPT ![AnyOf(t)] = ParseFromArray(body).any]
       \/ /\ frames' = [frames EXCEPT ![t] =
                  [NoCall EXCEPT !.pc = "returned",
                                 !.request = [entry |-> "ListActions", type |-> "",
                                              bytes |-> EmptyBytes],
                                 !.actions = ListActionsResult]]
          /\ UNCHANGED anys
    /\ UNCHANGED <<dispatchVars, lifecycleVars, clientVars, libraryVars>>

\* The call goes on from its Any: it walks the chain (DoAction: unpacks to the
\* request of the branch taken), calls the handler and returns; the Any is
\* destroyed.  overlapped records that another call was in flight meanwhile.
Route(t) ==
    /\ frames[t].pc = "parsed"
    /\ LET req == frames[t].request
           any == anys[AnyOf(t)]
           branches == CASE req.entry = "GetFlightInfo" -> GetFlightInfoBranches
                         [] req.entry = "DoGet" -> DoGetBranches
                         [] req.entry = "DoPut" -> DoPutBranches
                         [] OTHER -> << >>
           i == IF req.entry = "DoAction"
                THEN FirstActionMatch(req.type, DoActionBranches, 1)
                ELSE FirstMatch(any, branches, 1)
           Returned(res) ==
               /\ frames' = [frames EXCEPT ![t] =
                      [@ EXCEPT !.pc = "returned", !.invoked = res.invoked,
                                !.status = res.status,
                                !.overlapped = \E u \in Threads \ {t} :
                                                   frames[u].pc = "parsed"]]
               /\ anys' = [anys EXCEPT ![AnyOf(t)] = ParseFromArray(EmptyBytes).any]
       IN  \/ /\ req.entry = "DoAction"
              /\ \E r \in HandlerChoices(DoActionBranches[i].handler) :
                     Returned(Call(DoActionBranches[i].handler,
                                   UnpackTo(any, DoActionBranches[i].message).msg, r))
           \/ /\ req.entry # "DoAction"
              /\ i = 0
              /\ Returned(Reject)
           \/ /\ req.entry # "DoAction"
              /\ i # 0
              /\ \E r \in HandlerChoices(branches[i].handler) :
                     Returned(Call(branches[i].handler,
                                   IF branches[i].passes
                                   THEN UnpackTo(any, branches[i].type).msg
                                   ELSE NoCommand, r))
    /\ UNCHANGED <<dispatchVars, lifecycleVars, clientVars, libraryVars>>

\* The caller has taken the outcome; the thread is free for its next call.
Leave(t) ==
    /\ frames[t].pc = "returned"
    /\ frames' = [frames EXCEPT ![t] = NoCall]
    /\ UNCHANGED <<anys, dispatchVars, lifecycleVars, clientVars, libraryVars>>

NextConcurrent == \E t \in Threads : Enter(t) \/ Route(t) \/ Leave(t)

SpecConcurrent == Init /\ [][NextConcurrent]_vars

----------------------------------------------------------------------------
(* Prepared-statement lifecycle: the dispatcher in front of a backend that   *)
(* keeps a store of handles (section 4.5 of the specification).              *)

\* The type names the client puts in the Action of Prepare and of Close.
ClientCreateActionType == "CreatePreparedStatement"
ClientCloseActionType == "ClosePreparedStatement"

PreparedHandlers ==
    {"GetFlightInfoPreparedStatement", "DoGetPreparedStatement",
     "DoPutPreparedStatement", "ClosePreparedStatement"}

\* The backend's state of the handle a command carries.
StateOf(h) == IF h \in Handles THEN store[h] ELSE "NeverIssued"

\* The handle the next Create issues: the lowest one never issued; 0 when the
\* handles of the model are used up.
NextHandle ==
    IF \E h \in Handles : store[h] = "NeverIssued"
    THEN CHOOSE h \in Handles :
            /\ store[h] = "NeverIssued"
            /\ \A g \in Handles : store[g] = "NeverIssued" => h <= g
    ELSE 0

\* What the backend's handler returns for the command it receives: an
\* operation addressed to a handle that is not Created fails with
\* InvalidHandle; the others succeed.
BackendReturn(h, command) ==
    IF h \in PreparedHandlers
    THEN IF StateOf(command.arg) = "Created" THEN OK ELSE "InvalidHandle"
    ELSE IF h = "CreatePreparedStatement" /\ NextHandle = 0 THEN "OutOfHandles"
    ELSE OK

\* The handler invocation a dispatch result holds (its first one).
Invocation(res) ==
    IF res.invoked = <<>> THEN [handler |-> "", command |-> NoCommand, returned |-> OK]
    ELSE res.invoked[1]

\* The store after the handlers a call invoked have run: a successful Close
\* closes its handle, a successful Create issues NextHandle.
StoreAfter(res) ==
    [h \in Handles |->
        IF \E i \in 1..Len(res.invoked) :
              /\ res.invoked[i].handler = "ClosePreparedStatement"
              /\ res.invoked[i].command.arg = h
              /\ res.invoked[i].returned = OK
        THEN "Closed"
        ELSE IF \E i \in 1..Len(res.invoked) :
              /\ res.invoked[i].handler = "CreatePreparedStatement"
              /\ res.invoked[i].returned = OK
              /\ h = NextHandle
        THEN "Created"
        ELSE store[h]]

\* A prepared-statement command for handle h, as the client packs it.
PreparedCommand(h) == PackFrom([type |-> "CommandPreparedStatementQuery", arg |-> h])

CloseRequest(h) == PackFrom([type |-> "ActionClosePreparedStatementRequest", arg |-> h])

CreateRequest(q) == PackFrom([type |-> "ActionCreatePreparedStatementRequest", arg |-> q])

\* A dispatch of these bytes in front of the backend: the handler selected
\* returns what the backend returns for the command it is handed.
BackendDispatch(bytes, branches) ==
    LET inv == Invocation(Dispatch(bytes, branches, OK))
    IN  Dispatch(bytes, branches, BackendReturn(inv.handler, inv.command))

BackendDispatchAction(type, body) ==
    LET inv == Invocation(DispatchAction(type, body, OK))
    IN  DispatchAction(type, body, BackendReturn(inv.handler, inv.command))

\* What a call of client object c leaves behind, apart from the caller's slot.
PreparedOutcome(c, res) ==
    /\ invoked' = res.invoked
    /\ status' = res.status
    /\ actions' = <<>>
    /\ store' = StoreAfter(res)
    /\ caller' = c
    /\ closer' = [h \in Handles |->
                    IF store[h] # "Closed" /\ StoreAfter(res)[h] = "Closed"
                    THEN c ELSE closer[h]]
    /\ UNCHANGED <<overridden, clientVars, libraryVars, frames, anys>>

\* Prepare: the create action; guarded by the model's supply of handles.
PreparedCreate ==
    \E c \in ClientObjects, q \in 1..MaxQuery :
        LET res == BackendDispatchAction(ClientCreateActionType, CreateRequest(q))
        IN  /\ NextHandle # 0
            /\ request' = [entry |-> "DoAction", type |-> ClientCreateActionType,
                           bytes |-> CreateRequest(q)]
            /\ slot' = SlotAfter(res)
            /\ PreparedOutcome(c, res)

\* Execute: get-info with the prepared-statement command.
PreparedGetFlightInfo ==
    \E c \in ClientObjects, h \in 0..MaxHandle :
        LET res == BackendDispatch(PreparedCommand(h), GetFlightInfoBranches)
        IN  /\ request' = [entry |-> "GetFlightInfo", type |-> "",
                           bytes |-> PreparedCommand(h)]
            /\ slot' = SlotAfter(res)
            /\ PreparedOutcome(c, res)

\* Pull-data with the prepared-statement command as the ticket.
PreparedDoGet ==
    \E c \in ClientObjects, h \in 0..MaxHandle :
        LET res == BackendDispatch(PreparedCommand(h), DoGetBranches)
        IN  /\ request' = [entry |-> "DoGet", type |-> "", bytes |-> PreparedCommand(h)]
            /\ slot' = SlotAfter(res)
            /\ PreparedOutcome(c, res)

\* ExecuteUpdate / parameter binding: push-data with the prepared-statement command.
PreparedDoPut ==
    \E c \in ClientObjects, h \in 0..MaxHandle :
        LET res == BackendDispatch(PreparedCommand(h), DoPutBranches)
        IN  /\ request' = [entry |-> "DoPut", type |-> "", bytes |-> PreparedCommand(h)]
            /\ slot' = slot
            /\ PreparedOutcome(c, res)

\* Close: the close action.
PreparedClose ==
    \E c \in ClientObjects, h \in 0..MaxHandle :
        LET res == BackendDispatchAction(ClientCloseActionType, CloseRequest(h))
        IN  /\ request' = [entry |-> "DoAction", type |-> ClientCloseActionType,
                           bytes |-> CloseRequest(h)]
            /\ slot' = SlotAfter(res)
            /\ PreparedOutcome(c, res)

InitLifecycle ==
    /\ overridden = StatementBackend
    /\ DispatchInit
    /\ OtherInit

NextLifecycle ==
    PreparedCreate \/ PreparedGetFlightInfo \/ PreparedDoGet \/ PreparedDoPut
    \/ PreparedClose

SpecLifecycle == InitLifecycle /\ [][NextLifecycle]_vars

----------------------------------------------------------------------------
(* The client side, as far as the dispatch claims need it *)

\* The commands the client wraps in a descriptor and sends through the
\* get-info primitive (GetCatalogs, GetSchemas, GetTables, GetTableTypes,
\* GetExportedKeys, GetImportedKeys, GetPrimaryKeys, GetCrossReference,
\* Execute, PreparedStatement::Execute, GetSqlInfo).
ClientGetFlightInfoCommands ==
    {"CommandGetCatalogs", "CommandGetSchemas", "CommandGetTables",
     "CommandGetTableTypes", "CommandGetExportedKeys", "CommandGetImportedKeys",
     "CommandGetPrimaryKeys", "CommandGetCrossReference", "CommandStatementQuery",
     "CommandPreparedStatementQuery", "CommandGetSqlInfo"}

----------------------------------------------------------------------------
(* The update result of a push-data call *)

\* A 64-bit signed integer is its two's complement, as four 16-bit limbs,
\* lowest first.
Zero64 == <<0, 0, 0, 0>>

\* 0, 1, 100, 127, 128, 2^31 - 1, 2^31, 2^32, 2^63 - 1, -1, -100, -2^63
RecordCounts ==
    { Zero64, <<1, 0, 0, 0>>, <<100, 0, 0, 0>>, <<127, 0, 0, 0>>, <<128, 0, 0, 0>>,
      <<65535, 32767, 0, 0>>, <<0, 32768, 0, 0>>, <<0, 0, 1, 0>>,
      <<65535, 65535, 65535, 32767>>, <<65535, 65535, 65535, 65535>>,
      <<65436, 65535, 65535, 65535>>, <<0, 0, 0, 32768>> }

\* Bit i of the integer (0 beyond bit 63).
Bit(v, i) == IF i > 63 THEN 0 ELSE (v[(i \div 16) + 1] \div 2^(i % 16)) % 2

\* The k-th group of seven bits.
Group(v, k) ==
    Bit(v, 7*k) + 2 * Bit(v, 7*k + 1) + 4 * Bit(v, 7*k + 2) + 8 * Bit(v, 7*k + 3)
    + 16 * Bit(v, 7*k + 4) + 32 * Bit(v, 7*k + 5) + 64 * Bit(v, 7*k + 6)

\* The last group a varint writes: the highest one that is not zero.
TopGroup(v) ==
    CHOOSE k \in 0..9 :
        /\ k = 0 \/ Group(v, k) # 0
        /\ \A m \in (k + 1)..9 : Group(v, m) = 0

\* Mutant: the count is written as a 32-bit field (the upper limbs are lost).
WriteVarint32(v) ==
    LET w == <<v[1], v[2], 0, 0>>
    IN  [k \in 1..(TopGroup(w) + 1) |->
            Group(w, k - 1) + (IF k <= TopGroup(w) THEN 128 ELSE 0)]

\* The varint bytes of an int64 field: seven bits a byte, lowest group first,
\* the high bit set on every byte but the last.
WriteVarint(v) ==
    [k \in 1..(TopGroup(v) + 1) |->
        Group(v, k - 1) + (IF k <= TopGroup(v) THEN 128 ELSE 0)]

\* Bit i of the integer a varint holds.
VarintBit(bytes, i) ==
    IF (i \div 7) + 1 > Len(bytes) THEN 0
    ELSE ((bytes[(i \div 7) + 1] % 128) \div 2^(i % 7)) % 2

RECURSIVE LimbFrom(_, _, _)
LimbFrom(bytes, n, j) ==
    IF j > 15 THEN 0
    ELSE VarintBit(bytes, 16 * n + j) * 2^j + LimbFrom(bytes, n, j + 1)

\* The int64 read from varint bytes (bits beyond the 64th are dropped).
ReadVarint(bytes) ==
    <<LimbFrom(bytes, 0, 0), LimbFrom(bytes, 1, 0), LimbFrom(bytes, 2, 0),
      LimbFrom(bytes, 3, 0)>>

\* doPutUpdateResult.set_record_count(n); doPutUpdateResult.SerializeAsString():
\* the buffer the mock's metadata reader hands out.  A zero count is the
\* default and is not written.
SerializeUpdateResult(n) ==
    IF n = Zero64 THEN << >> ELSE << [field |-> 1, value |-> WriteVarint(n)] >>

\* The record_count the client reads from a metadata buffer.
ParseUpdateResult(buffer) ==
    LET entries == SelectSeq(buffer, LAMBDA e : e.field = 1)
    IN  IF entries = << >> THEN Zero64 ELSE ReadVarint(entries[Len(entries)].value)

----------------------------------------------------------------------------
(* FlightSqlClient in front of the mock transport of the tests *)

\* FlightCallOptions objects a caller may pass.
CallOptions == {"call_options", "other_options"}

\* A parameter batch: its schema and the rows of its first column.
Batches == [schema : ParameterSchemas, rows : {l \in Lists : Len(l) <= 1}]

\* The read operations and the command each one sends.
CommandOf ==
    [GetCatalogs |-> "CommandGetCatalogs", GetSchemas |-> "CommandGetSchemas",
     GetTables |-> "CommandGetTables", GetTableTypes |-> "CommandGetTableTypes",
     GetPrimaryKeys |-> "CommandGetPrimaryKeys",
     GetExportedKeys |-> "CommandGetExportedKeys",
     GetImportedKeys |-> "CommandGetImportedKeys",
     GetCrossReference |-> "CommandGetCrossReference",
     GetSqlInfo |-> "CommandGetSqlInfo", Execute |-> "CommandStatementQuery"]

ReadOperations == DOMAIN CommandOf

\* The command an operation builds from its arguments: a fresh message on
\* which the setter of every supplied argument is called.  An optional
\* argument not supplied (a null pointer) calls no setter.
BuildCommand(T, args) ==
    [type |-> T,
     fields |-> [n \in FieldNames(T) |->
        LET kind == FieldsOf(T)[FieldNumber(T, n)].kind
        IN  IF kind = "optional"
            THEN IF args[n] = << >> THEN DefaultOf(kind) ELSE << args[n][1] >>
            ELSE args[n]]]

\* One call on the mock transport.
\* (put: the schema and batch of a push-data call; reads: the buffers the
\* client read from the call's reader or result stream.)
TransportCall(primitive, o, type, command, put, response, reads) ==
    [primitive |-> primitive, options |-> o, type |-> type, command |-> command,
     bytes |-> getDescriptor(command), schema |-> put.schema, batch |-> put.batch,
     response |-> response, reads |-> reads]

NoPut == [schema |-> << >>, batch |-> << >>]

NoResponse == [record_count |-> Zero64, buffer |-> << >>]

\* The mock after the calls an operation made: each call is counted under its
\* primitive.
Counted(made) ==
    [mock EXCEPT !.counted =
        [p \in DOMAIN mock.counted |->
            mock.counted[p] + Cardinality({i \in DOMAIN made : made[i].primitive = p})]]

\* A read operation on a fresh client: one get-info call with the command's
\* descriptor and the caller's options.
ReadOutcome(name, o, args) ==
    /\ op = NoOperation
    /\ op' = [name |-> name, options |-> o, args |-> args]
    /\ calls' = << TransportCall("GetFlightInfo", o, "",
                                 BuildCommand(CommandOf[name], args), NoPut, NoResponse, 0) >>
    /\ returned' = [status |-> OK, value |-> << >>]
    /\ mock' = Counted(calls')
    /\ run' = Append(run, name)
    /\ UNCHANGED <<stmt, dispatchVars, lifecycleVars, libraryVars, frames, anys>>

ClientGetCatalogs ==
    \E o \in CallOptions :
        LET args == << >>
        IN  /\ ReadOutcome("GetCatalogs", o, args)

ClientGetSchemas ==
    \E o \in CallOptions, catalog \in OptionalStrings, pattern \in OptionalStrings :
        LET args == [catalog |-> catalog, schema_filter_pattern |-> pattern]
        IN  /\ ReadOutcome("GetSchemas", o, args)

ClientGetTables ==
    \E o \in CallOptions, catalog \in OptionalStrings, pattern \in OptionalStrings,
       table \in OptionalStrings, include \in BOOLEAN, types \in Lists :
        LET args == [catalog |-> catalog, schema_filter_pattern |-> pattern,
                     table_name_filter_pattern |-> table, include_schema |-> include,
                     table_types |-> types]
        IN  /\ ReadOutcome("GetTables", o, args)

ClientGetTableTypes ==
    \E o \in CallOptions :
        LET args == << >>
        IN  /\ ReadOutcome("GetTableTypes", o, args)

ClientGetPrimaryKeys ==
    \E o \in CallOptions, catalog \in OptionalStrings, schema \in OptionalStrings,
       table \in FieldValues :
        LET args == [catalog |-> catalog, schema |-> schema, table |-> table]
        IN  /\ ReadOutcome("GetPrimaryKeys", o, args)

ClientGetExportedKeys ==
    \E o \in CallOptions, catalog \in OptionalStrings, schema \in OptionalStrings,
       table \in FieldValues :
        LET args == [catalog |-> catalog, schema |-> schema, table |-> table]
        IN  /\ ReadOutcome("GetExportedKeys", o, args)

ClientGetImportedKeys ==
    \E o \in CallOptions, catalog \in OptionalStrings, schema \in OptionalStrings,
       table \in FieldValues :
        LET args == [catalog |-> catalog, schema |-> schema, table |-> table]
        IN  /\ ReadOutcome("GetImportedKeys", o, args)

ClientGetCrossReference ==
    \E o \in CallOptions, pkc \in OptionalStrings, pks \in OptionalStrings,
       pkt \in FieldValues, fkc \in OptionalStrings, fks \in OptionalStrings,
       fkt \in FieldValues :
        LET args == [pk_catalog |-> pkc, pk_schema |-> pks, pk_table |-> pkt,
                     fk_catalog |-> fkc, fk_schema |-> fks, fk_table |-> fkt]
        IN  /\ ReadOutcome("GetCrossReference", o, args)

ClientGetSqlInfo ==
    \E o \in CallOptions, info \in Lists :
        LET args == [info |-> info]
        IN  /\ ReadOutcome("GetSqlInfo", o, args)

ClientExecute ==
    \E o \in CallOptions, query \in FieldValues :
        LET args == [query |-> query]
        IN  /\ ReadOutcome("Execute", o, args)

\* ExecuteUpdate(query): one push-data call with the statement-update
\* descriptor; the client reads one metadata buffer from the reader the mock
\* hands out and returns the record_count parsed from it.
ClientExecuteUpdate ==
    \E o \in CallOptions, query \in FieldValues, n \in RecordCounts :
        LET args == [query |-> query]
            response == [record_count |-> n, buffer |-> SerializeUpdateResult(n)]
        IN  /\ op = NoOperation
            /\ op' = [name |-> "ExecuteUpdate", options |-> o, args |-> args]
            /\ calls' = << TransportCall("DoPut", o, "",
                                         BuildCommand("CommandStatementUpdate", args),
                                         NoPut, response, 1) >>
            /\ returned' = [status |-> OK, value |-> ParseUpdateResult(response.buffer)]
            /\ mock' = Counted(calls')
            /\ run' = Append(run, "ExecuteUpdate")
            /\ UNCHANGED <<stmt, dispatchVars, lifecycleVars, libraryVars, frames, anys>>

\* Prepare(query): the create action.  The client reads one Result from the
\* stream, unpacks the ActionCreatePreparedStatementResult in it and keeps
\* the handle and the serialized parameter schema it carries.
ClientPrepare ==
    \E o \in CallOptions, query \in FieldValues, h \in Handles,
       schema \in {<< >>} \cup {<< s >> : s \in ParameterSchemas} :
        LET args == [query |-> query]
            result == CreateResult(h, schema)
            read == DecodedCommand(getDescriptor(result)).fields
        IN  /\ op = NoOperation
            /\ op' = [name |-> "Prepare", options |-> o, args |-> args]
            /\ calls' = << TransportCall("DoAction", o, ClientCreateActionType,
                               BuildCommand("ActionCreatePreparedStatementRequest", args),
                               NoPut, [result |-> getDescriptor(result)], 1) >>
            /\ returned' = [status |-> OK, value |-> << >>]
            /\ stmt' = [handle |-> read.prepared_statement_handle,
                        parameter_schema |-> read.parameter_schema,
                        options |-> o, bound |-> << >>, closed |-> FALSE]
            /\ mock' = [Counted(calls') EXCEPT !.result = result]
            /\ run' = Append(run, "Prepare")
            /\ UNCHANGED <<dispatchVars, lifecycleVars, libraryVars, frames, anys>>

\* An operation on the prepared statement: the test still holds the statement
\* and has calls left.
Held == stmt # << >> /\ Len(run) < MaxRun

\* GetParameterSchema(): the schema read from the bytes kept at creation; no
\* transport call.  <<>> when the result carried no parameter schema.
ClientGetParameterSchema ==
    /\ Held
    /\ op' = [name |-> "GetParameterSchema", options |-> stmt.options, args |-> << >>]
    /\ calls' = << >>
    /\ returned' = [status |-> OK,
                    value |-> IF stmt.parameter_schema = << >> THEN << >>
                              ELSE << ReadSchema(stmt.parameter_schema) >>]
    /\ run' = Append(run, "GetParameterSchema")
    /\ UNCHANGED <<stmt, mock, dispatchVars, lifecycleVars, libraryVars, frames, anys>>

\* SetParameters(batch): the batch is kept for the next execution.
ClientSetParameters ==
    \E batch \in Batches :
        /\ Held
        /\ ~stmt.closed
        /\ op' = [name |-> "SetParameters", options |-> stmt.options,
                  args |-> [batch |-> batch]]
        /\ calls' = << >>
        /\ returned' = [status |-> OK, value |-> << >>]
        /\ stmt' = [stmt EXCEPT !.bound = << batch >>]
        /\ run' = Append(run, "SetParameters")
        /\ UNCHANGED <<mock, dispatchVars, lifecycleVars, libraryVars, frames, anys>>

PreparedQuery(h) ==
    BuildCommand("CommandPreparedStatementQuery", [prepared_statement_handle |-> h])

\* The schema and batch a prepared statement passes to a push-data call: the
\* bound batch under its own schema, or no batch under a schema without fields.
BoundPut ==
    [schema |-> IF stmt.bound = << >> THEN << >> ELSE stmt.bound[1].schema,
     batch |-> stmt.bound]

\* PreparedStatement::Execute(): when a batch is bound, a push-data call with
\* the prepared-statement command writes it; then the get-info call, whose
\* FlightInfo is returned (the mock hands out FlightInfo 0 or 1).
ClientPreparedExecute ==
    \E info \in FieldValues :
        /\ Held
        /\ ~stmt.closed
        /\ op' = [name |-> "PreparedExecute", options |-> stmt.options, args |-> << >>]
        /\ calls' =
             (IF stmt.bound = << >> THEN << >>
              ELSE << TransportCall("DoPut", stmt.options, "", PreparedQuery(stmt.handle),
                                    BoundPut, NoResponse, 0) >>)
             \o << TransportCall("GetFlightInfo", stmt.options, "",
                                  PreparedQuery(stmt.handle), NoPut, [info |-> info], 0) >>
        /\ returned' = [status |-> OK, value |-> calls'[Len(calls')].response.info]
        /\ mock' = Counted(calls')
        /\ run' = Append(run, "PreparedExecute")
        /\ UNCHANGED <<stmt, dispatchVars, lifecycleVars, libraryVars, frames, anys>>

\* PreparedStatement::ExecuteUpdate(): one push-data call with the
\* prepared-statement command, bound batch or not; the record_count parsed
\* from the one metadata buffer read is returned.  (The reader mock reports
\* 0, the 100 of the tests or 2^32.)
ClientPreparedExecuteUpdate ==
    \E n \in {Zero64, <<100, 0, 0, 0>>, <<0, 0, 1, 0>>} :
        LET response == [record_count |-> n, buffer |-> SerializeUpdateResult(n)]
        IN  /\ Held
            /\ ~stmt.closed
            /\ op' = [name |-> "PreparedExecuteUpdate", options |-> stmt.options,
                      args |-> << >>]
            /\ calls' = << TransportCall("DoPut", stmt.options, "",
                                         PreparedQuery(stmt.handle), BoundPut, response, 1) >>
            /\ returned' = [status |-> OK, value |-> ParseUpdateResult(response.buffer)]
            /\ mock' = Counted(calls')
            /\ run' = Append(run, "PreparedExecuteUpdate")
            /\ UNCHANGED <<stmt, dispatchVars, lifecycleVars, libraryVars, frames, anys>>

\* Mutant: a statement never sends the close action.
NoCloseCalls == << >>

\* The close action of a statement not closed yet.
CloseCalls ==
    IF stmt.closed THEN << >>
    ELSE << TransportCall("DoAction", stmt.options, ClientCloseActionType,
                BuildCommand("ActionClosePreparedStatementRequest",
                             [prepared_statement_handle |-> stmt.handle]),
                NoPut, [result |-> getDescriptor(mock.result)], 0) >>

\* PreparedStatement::Close(): the close action.
ClientPreparedClose ==
    /\ Held
    /\ ~stmt.closed
    /\ op' = [name |-> "Close", options |-> stmt.options, args |-> << >>]
    /\ calls' = CloseCalls
    /\ returned' = [status |-> OK, value |-> << >>]
    /\ stmt' = [stmt EXCEPT !.closed = TRUE]
    /\ mock' = Counted(calls')
    /\ run' = Append(run, "Close")
    /\ UNCHANGED <<dispatchVars, lifecycleVars, libraryVars, frames, anys>>

\* The test ends and the statement it holds is destroyed: a statement not
\* closed yet sends the close action.
ClientRelease ==
    /\ stmt # << >>
    /\ op' = [name |-> "Release", options |-> stmt.options, args |-> << >>]
    /\ calls' = CloseCalls
    /\ returned' = [status |-> OK, value |-> << >>]
    /\ stmt' = << >>
    /\ mock' = Counted(calls')
    /\ run' = Append(run, "Release")
    /\ UNCHANGED <<dispatchVars, lifecycleVars, libraryVars, frames, anys>>

InitClient ==
    /\ overridden = {}
    /\ DispatchInit
    /\ OtherInit

NextClient ==
    \/ ClientGetCatalogs \/ ClientGetSchemas \/ ClientGetTables \/ ClientGetTableTypes
    \/ ClientGetPrimaryKeys \/ ClientGetExportedKeys \/ ClientGetImportedKeys
    \/ ClientGetCrossReference \/ ClientGetSqlInfo \/ ClientExecute
    \/ ClientExecuteUpdate

SpecClient == InitClient /\ [][NextClient]_vars

\* A test that prepares a statement and works on it until the statement is
\* destroyed.
NextStatement ==
    \/ ClientPrepare \/ ClientGetParameterSchema \/ ClientSetParameters
    \/ ClientPreparedExecute \/ ClientPreparedExecuteUpdate
    \/ ClientPreparedClose \/ ClientRelease

SpecStatement == InitClient /\ [][NextStatement]_vars

----------------------------------------------------------------------------
(* Callers of the SqlSchema functions *)

\* A call builds the schema anew and hands it to the caller, who keeps it.
CallGetCatalogsSchema ==
    /\ Len(fetched) < MaxFetch
    /\ fetched' = Append(fetched, [function |-> "GetCatalogsSchema",
                                   schema |-> GetCatalogsSchema])
    /\ UNCHANGED <<dispatchVars, lifecycleVars, clientVars, maps, objects, last, frames, anys>>

CallGetSchemasSchema ==
    /\ Len(fetched) < MaxFetch
    /\ fetched' = Append(fetched, [function |-> "GetSchemasSchema",
                                   schema |-> GetSchemasSchema])
    /\ UNCHANGED <<dispatchVars, lifecycleVars, clientVars, maps, objects, last, frames, anys>>

CallGetTablesSchema ==
    /\ Len(fetched) < MaxFetch
    /\ fetched' = Append(fetched, [function |-> "GetTablesSchema",
                                   schema |-> GetTablesSchema])
    /\ UNCHANGED <<dispatchVars, lifecycleVars, clientVars, maps, objects, last, frames, anys>>

CallGetTablesSchemaWithIncludedSchema ==
    /\ Len(fetched) < MaxFetch
    /\ fetched' = Append(fetched, [function |-> "GetTablesSchemaWithIncludedSchema",
                                   schema |-> GetTablesSchemaWithIncludedSchema])
    /\ UNCHANGED <<dispatchVars, lifecycleVars, clientVars, maps, objects, last, frames, anys>>

CallGetTableTypesSchema ==
    /\ Len(fetched) < MaxFetch
    /\ fetched' = Append(fetched, [function |-> "GetTableTypesSchema",
                                   schema |-> GetTableTypesSchema])
    /\ UNCHANGED <<dispatchVars, lifecycleVars, clientVars, maps, objects, last, frames, anys>>

CallGetPrimaryKeysSchema ==
    /\ Len(fetched) < MaxFetch
    /\ fetched' = Append(fetched, [function |-> "GetPrimaryKeysSchema",
                                   schema |-> GetPrimaryKeysSchema])
    /\ UNCHANGED <<dispatchVars, lifecycleVars, clientVars, maps, objects, last, frames, anys>>

CallGetImportedAndExportedKeysSchema ==
    /\ Len(fetched) < MaxFetch
    /\ fetched' = Append(fetched, [function |-> "GetImportedAndExportedKeysSchema",
                                   schema |-> GetImportedAndExportedKeysSchema])
    /\ UNCHANGED <<dispatchVars, lifecycleVars, clientVars, maps, objects, last, frames, anys>>

InitLibrary ==
    /\ overridden = {}
    /\ DispatchInit
    /\ OtherInit

NextSchema ==
    \/ CallGetCatalogsSchema \/ CallGetSchemasSchema \/ CallGetTablesSchema
    \/ CallGetTablesSchemaWithIncludedSchema \/ CallGetTableTypesSchema
    \/ CallGetPrimaryKeysSchema \/ CallGetImportedAndExportedKeysSchema

SpecSchema == InitLibrary /\ [][NextSchema]_vars

----------------------------------------------------------------------------
(* ColumnMetadata and ColumnMetadataBuilder *)

\* The key each setter appends under and each getter looks up.
KeyOf ==
    [CatalogName |-> "CATALOG_NAME", SchemaName |-> "SCHEMA_NAME",
     TableName |-> "TABLE_NAME", Precision |-> "PRECISION", Scale |-> "SCALE",
     IsAutoIncrement |-> "IS_AUTO_INCREMENT", IsCaseSensitive |-> "IS_CASE_SENSITIVE",
     IsReadOnly |-> "IS_READ_ONLY", IsSearchable |-> "IS_SEARCHABLE",
     GetCatalogName |-> "CATALOG_NAME", GetSchemaName |-> "SCHEMA_NAME",
     GetTableName |-> "TABLE_NAME", GetPrecision |-> "PRECISION", GetScale |-> "SCALE",
     GetIsAutoIncrement |-> "IS_AUTO_INCREMENT",
     GetIsCaseSensitive |-> "IS_CASE_SENSITIVE",
     GetIsReadOnly |-> "IS_READ_ONLY", GetIsSearchable |-> "IS_SEARCHABLE"]

\* Mutant: the strings of the two truth values are exchanged.
BooleanToStringSwapped(boolean_value) == IF boolean_value THEN "NO" ELSE "YES"

\* BooleanToString: BOOLEAN_TRUE_STR or BOOLEAN_FALSE_STR.
BooleanToString(boolean_value) == IF boolean_value THEN "YES" ELSE "NO"

\* std::to_string(int32_t): the decimal digits, after a '-' when negative.
to_string(n) ==
    LET digit == << "0", "1", "2", "3", "4", "5", "6", "7", "8", "9" >>
        RECURSIVE Digits(_)
        Digits(k) == IF k < 10 THEN digit[k + 1]
                     ELSE Digits(k \div 10) \o digit[(k % 10) + 1]
    IN  IF n < 0 THEN "-" \o Digits(-n) ELSE Digits(n)

\* A lookup that answers a missing key with an empty string instead of an error.
GetOrEmpty(pairs, key) ==
    LET found == {i \in DOMAIN pairs : pairs[i].key = key}
    IN  IF found = {} THEN [ok |-> TRUE, value |-> ""]
        ELSE [ok |-> TRUE,
              value |-> pairs[CHOOSE i \in found : \A j \in found : i <= j].value]

\* KeyValueMetadata::Get(key): the value of the first pair with the key, a
\* KeyError when no pair has it.
Get(pairs, key) ==
    LET found == {i \in DOMAIN pairs : pairs[i].key = key}
    IN  IF found = {} THEN [ok |-> FALSE, value |-> "KeyError"]
        ELSE [ok |-> TRUE,
              value |-> pairs[CHOOSE i \in found : \A j \in found : i <= j].value]

\* The number of objects made and pairs appended so far.
Made ==
    Len(objects) + Cardinality({<<m, i>> \in (DOMAIN maps) \X (1..MaxMade) :
                                   i <= Len(maps[m])})

\* ColumnMetadata::Create(): a builder around a ColumnMetadata that holds a new,
\* empty KeyValueMetadata.
Create ==
    /\ Made < MaxMade
    /\ maps' = Append(maps, << >>)
    /\ objects' = Append(objects, [class |-> "ColumnMetadataBuilder",
                                   map |-> Len(maps) + 1])
    /\ last' = [call |-> "Create", object |-> Len(objects) + 1, arg |-> << >>,
                result |-> << >>]
    /\ UNCHANGED <<dispatchVars, lifecycleVars, clientVars, fetched, frames, anys>>

\* A conversion that makes a deep copy: the new ColumnMetadata gets a
\* KeyValueMetadata of its own, holding the pairs the builder has so far.
ConvertCopying ==
    \E b \in DOMAIN objects :
        /\ Made < MaxMade
        /\ objects[b].class = "ColumnMetadataBuilder"
        /\ maps' = Append(maps, maps[objects[b].map])
        /\ objects' = Append(objects, [class |-> "ColumnMetadata",
                                       map |-> Len(maps) + 1])
        /\ last' = [call |-> "operator ColumnMetadata", object |-> b, arg |-> << >>,
                    result |-> Len(objects) + 1]
        /\ UNCHANGED <<dispatchVars, lifecycleVars, clientVars, fetched, frames, anys>>

\* operator ColumnMetadata() of a builder: a copy of its ColumnMetadata member,
\* which points to the same KeyValueMetadata (std::move of a member of a const
\* object copies).
Convert ==
    \E b \in DOMAIN objects :
        /\ Made < MaxMade
        /\ objects[b].class = "ColumnMetadataBuilder"
        /\ objects' = Append(objects, [class |-> "ColumnMetadata",
                                       map |-> objects[b].map])
        /\ last' = [call |-> "operator ColumnMetadata", object |-> b, arg |-> << >>,
                    result |-> Len(objects) + 1]
        /\ UNCHANGED <<maps, dispatchVars, lifecycleVars, clientVars, fetched, frames, anys>>

\* CatalogName, SchemaName, TableName: the string is appended under the key.
StringSetter ==
    \E b \in DOMAIN objects, setter \in {"CatalogName", "SchemaName", "TableName"},
       name \in {"a", "b"} :
        /\ objects[b].class = "ColumnMetadataBuilder"
        /\ Made < MaxMade
        /\ maps' = [maps EXCEPT ![objects[b].map] =
                       Append(@, [key |-> KeyOf[setter], value |-> name])]
        /\ last' = [call |-> setter, object |-> b, arg |-> name, result |-> << >>]
        /\ UNCHANGED <<objects, dispatchVars, lifecycleVars, clientVars, fetched, frames, anys>>

\* Precision, Scale: the decimal string of the number is appended under the key.
NumberSetter ==
    \E b \in DOMAIN objects, setter \in {"Precision", "Scale"}, n \in {-1, 10} :
        /\ objects[b].class = "ColumnMetadataBuilder"
        /\ Made < MaxMade
        /\ maps' = [maps EXCEPT ![objects[b].map] =
                       Append(@, [key |-> KeyOf[setter], value |-> to_string(n)])]
        /\ last' = [call |-> setter, object |-> b, arg |-> n, result |-> << >>]
        /\ UNCHANGED <<objects, dispatchVars, lifecycleVars, clientVars, fetched, frames, anys>>

\* IsAutoIncrement, IsCaseSensitive, IsReadOnly, IsSearchable: the string of
\* the truth value is appended under the key.
BooleanSetter ==
    \E b \in DOMAIN objects,
       setter \in {"IsAutoIncrement", "IsCaseSensitive", "IsReadOnly", "IsSearchable"},
       boolean_value \in BOOLEAN :
        /\ objects[b].class = "ColumnMetadataBuilder"
        /\ Made < MaxMade
        /\ maps' = [maps EXCEPT ![objects[b].map] =
                       Append(@, [key |-> KeyOf[setter],
                                  value |-> BooleanToString(boolean_value)])]
        /\ last' = [call |-> setter, object |-> b, arg |-> boolean_value,
                    result |-> << >>]
        /\ UNCHANGED <<objects, dispatchVars, lifecycleVars, clientVars, fetched, frames, anys>>

\* GetCatalogName ... GetIsSearchable of a ColumnMetadata: the lookup of the
\* getter's key in the KeyValueMetadata the object points to.
Getter ==
    \E c \in DOMAIN objects,
       getter \in {"GetCatalogName", "GetSchemaName", "GetTableName", "GetPrecision",
                   "GetScale", "GetIsAutoIncrement", "GetIsCaseSensitive",
                   "GetIsReadOnly", "GetIsSearchable"} :
        /\ objects[c].class = "ColumnMetadata"
        /\ last' = [call |-> getter, object |-> c, arg |-> << >>,
                    result |-> Get(maps[objects[c].map], KeyOf[getter])]
        /\ UNCHANGED <<maps, objects, dispatchVars, lifecycleVars, clientVars, fetched, frames, anys>>

NextMetadata ==
    \/ Create \/ Convert \/ StringSetter \/ NumberSetter \/ BooleanSetter \/ Getter

SpecMetadata == InitLibrary /\ [][NextMetadata]_vars


----------------------------------------------------------------------------
(* Claims about the dispatch entry points *)

DispatchEntries == {"GetFlightInfo", "DoGet", "DoPut", "DoAction"}

\* The type tag of the envelope the last request carried, when its type_url
\* has the form "<prefix>/<name>"; "" otherwise.
TagOf(req) == IF req.bytes.type_url.slash THEN req.bytes.type_url.name ELSE ""

\* Exactly one invocation, of handler h.
InvokedOnly(h) == Len(invoked) = 1 /\ invoked[1].handler = h

\* The dispatcher itself rejected the request.
Rejected == invoked = <<>> /\ status = Invalid

\* The handler each entry point owes each tag, as the specification lists them.
GetInfoHandlerOf ==
    [CommandStatementQuery |-> "GetFlightInfoStatement",
     CommandPreparedStatementQuery |-> "GetFlightInfoPreparedStatement",
     CommandGetCatalogs |-> "GetFlightInfoCatalogs",
     CommandGetSchemas |-> "GetFlightInfoSchemas",
     CommandGetTables |-> "GetFlightInfoTables",
     CommandGetTableTypes |-> "GetFlightInfoTableTypes",
     CommandGetSqlInfo |-> "GetFlightInfoSqlInfo",
     CommandGetPrimaryKeys |-> "GetFlightInfoPrimaryKeys",
     CommandGetExportedKeys |-> "GetFlightInfoExportedKeys",
     CommandGetImportedKeys |-> "GetFlightInfoImportedKeys"]

PullDataHandlerOf ==
    [TicketStatementQuery |-> "DoGetStatement",
     CommandPreparedStatementQuery |-> "DoGetPreparedStatement",
     CommandGetCatalogs |-> "DoGetCatalogs",
     CommandGetSchemas |-> "DoGetSchemas",
     CommandGetTables |-> "DoGetTables",
     CommandGetTableTypes |-> "DoGetTableTypes",
     CommandGetSqlInfo |-> "DoGetSqlInfo",
     CommandGetPrimaryKeys |-> "DoGetPrimaryKeys",
     CommandGetExportedKeys |-> "DoGetExportedKeys",
     CommandGetImportedKeys |-> "DoGetImportedKeys"]

PushDataHandlerOf ==
    [CommandStatementUpdate |-> "DoPutCommandStatementUpdate",
     CommandPreparedStatementQuery |-> "DoPutPreparedStatement"]

ActionHandlerOf ==
    [CreatePreparedStatement |-> "CreatePreparedStatement",
     ClosePreparedStatement |-> "ClosePreparedStatement"]

ActionRequestOf ==
    [CreatePreparedStatement |-> "ActionCreatePreparedStatementRequest",
     ClosePreparedStatement |-> "ActionClosePreparedStatementRequest"]

\* C1: GetFlightInfo invokes, for each of the ten listed tags, exactly one
\* handler, once, the GetFlightInfo* handler of that tag; for every other tag
\* it returns Invalid and invokes no handler.
C1_GetFlightInfoDispatch ==
    request.entry = "GetFlightInfo" =>
        IF TagOf(request) \in DOMAIN GetInfoHandlerOf
        THEN InvokedOnly(GetInfoHandlerOf[TagOf(request)])
        ELSE Rejected

C1_Witness ==
    /\ request.entry = "GetFlightInfo"
    /\ TagOf(request) = "CommandGetImportedKeys"
    /\ InvokedOnly("GetFlightInfoImportedKeys")
    /\ status = OK

\* C2: DoGet invokes, for each of the ten listed ticket tags, exactly one
\* handler, once, the DoGet* handler of that tag; for every other tag it
\* returns Invalid and invokes no handler.
C2_DoGetDispatch ==
    request.entry = "DoGet" =>
        IF TagOf(request) \in DOMAIN PullDataHandlerOf
        THEN InvokedOnly(PullDataHandlerOf[TagOf(request)])
        ELSE Rejected

C2_Witness ==
    /\ request.entry = "DoGet"
    /\ TagOf(request) = "TicketStatementQuery"
    /\ InvokedOnly("DoGetStatement")
    /\ invoked[1].command = [type |-> "TicketStatementQuery", arg |-> 1]

\* C3: DoPut invokes only DoPutCommandStatementUpdate for the statement-update
\* tag and only DoPutPreparedStatement for the prepared-statement-query tag,
\* each once; every other tag returns Invalid and invokes no handler.
C3_DoPutDispatch ==
    request.entry = "DoPut" =>
        IF TagOf(request) \in DOMAIN PushDataHandlerOf
        THEN InvokedOnly(PushDataHandlerOf[TagOf(request)])
        ELSE Rejected

C3_Witness ==
    /\ request.entry = "DoPut"
    /\ TagOf(request) = "CommandPreparedStatementQuery"
    /\ InvokedOnly("DoPutPreparedStatement")

\* C4: DoAction invokes only the handler whose name is exactly the action
\* type, once, with the body decoded as that handler's request type (a body
\* that packs such a request is passed on with its fields); every other type
\* name returns Invalid and invokes no handler.
C4_DoActionDispatch ==
    request.entry = "DoAction" =>
        IF request.type \in DOMAIN ActionHandlerOf
        THEN /\ InvokedOnly(ActionHandlerOf[request.type])
             /\ invoked[1].command.type = ActionRequestOf[request.type]
             /\ \A a \in FieldValues :
                    LET c == [type |-> ActionRequestOf[request.type], arg |-> a]
                    IN  request.bytes = PackFrom(c) => invoked[1].command = c
        ELSE Rejected

C4_Witness ==
    /\ request.entry = "DoAction"
    /\ request.type = "ClosePreparedStatement"
    /\ request.bytes = PackFrom([type |-> "ActionClosePreparedStatementRequest", arg |-> 1])
    /\ InvokedOnly("ClosePreparedStatement")
    /\ invoked[1].command.arg = 1

\* C5: every descriptor the client can construct for the get-info primitive
\* (the get-cross-reference descriptor included) is routed by GetFlightInfo
\* to a handler, never rejected as Invalid by the dispatcher.
C5_EveryClientDescriptorRouted ==
    (/\ request.entry = "GetFlightInfo"
     /\ \E T \in ClientGetFlightInfoCommands, a \in FieldValues :
            request.bytes = PackFrom([type |-> T, arg |-> a]))
    => (Len(invoked) = 1 /\ ~Rejected)

\* The tag of the last request is one its entry point lists (for DoAction:
\* the action type is one of the two names).
Recognized ==
    \/ request.entry = "GetFlightInfo" /\ TagOf(request) \in DOMAIN GetInfoHandlerOf
    \/ request.entry = "DoGet" /\ TagOf(request) \in DOMAIN PullDataHandlerOf
    \/ request.entry = "DoPut" /\ TagOf(request) \in DOMAIN PushDataHandlerOf
    \/ request.entry = "DoAction" /\ request.type \in DOMAIN ActionHandlerOf

\* C6: when the tag is recognized but the payload does not parse as that
\* tag's schema, or the container bytes are no parseable envelope, the call
\* fails with Malformed and no handler is invoked.
C6_MalformedRejected ==
    (/\ request.entry \in DispatchEntries
     /\ \/ Recognized /\ request.bytes.value.bad
        \/ request.bytes.bad)
    => (status = "Malformed" /\ invoked = <<>>)

\* C7: on a backend that overrides no handler, every recognized request
\* returns NotImplemented, and the four entry points return nothing but
\* NotImplemented or Invalid (never OK).
C7_DefaultNotImplemented ==
    (overridden = {} /\ request.entry \in DispatchEntries) =>
        /\ Recognized => status = NotImplemented
        /\ status \in {NotImplemented, Invalid}

C7_Witness ==
    /\ overridden = {}
    /\ request.entry = "DoAction"
    /\ request.type = "CreatePreparedStatement"
    /\ status = NotImplemented

\* C8: ListActions returns OK and exactly the two entries
\* "CreatePreparedStatement", "ClosePreparedStatement", in this order, whatever
\* the backend overrides and whatever was called before.
C8_ListActionsFixed ==
    request.entry = "ListActions" =>
        /\ status = OK
        /\ Len(actions) = 2
        /\ actions[1].type = "CreatePreparedStatement"
        /\ actions[2].type = "ClosePreparedStatement"
        /\ invoked = <<>>

C8_Witness ==
    /\ request.entry = "ListActions"
    /\ overridden = Handlers
    /\ Len(actions) = 2

\* The type names ListActions advertises.
Advertised == {ListActionsResult[i].type : i \in 1..Len(ListActionsResult)}

\* C9: the names ListActions advertises are the names DoAction routes to a
\* handler: every advertised name is accepted, every accepted name is
\* advertised, and the client's two literals are among them.
C9_AdvertisedIsAccepted ==
    /\ request.entry = "ListActions" =>
           \A i \in 1..Len(actions) :
               \A body \in ActionBodies, r \in HandlerReturns :
                   DispatchAction(actions[i].type, body, r).invoked # <<>>
    /\ request.entry = "DoAction" =>
           (invoked # <<>> <=> request.type \in Advertised)
    /\ {ClientCreateActionType, ClientCloseActionType} = Advertised

C9_Witness ==
    /\ request.entry = "DoAction"
    /\ request.type = ClientCloseActionType
    /\ request.type \in Advertised
    /\ InvokedOnly("ClosePreparedStatement")

\* C10: a dispatch call makes at most one handler invocation and returns that
\* invocation's Status unchanged, also when it is an error: no second
\* handler, no retry, no translation of the error.
C10_ErrorPropagatedUnchanged ==
    request.entry \in DispatchEntries =>
        /\ Len(invoked) <= 1
        /\ Len(invoked) = 1 => status = invoked[1].returned

C10_Witness ==
    /\ request.entry = "DoPut"
    /\ Len(invoked) = 1
    /\ invoked[1].handler = "DoPutCommandStatementUpdate"
    /\ invoked[1].returned = "IOError"
    /\ status = "IOError"

\* C11: when GetFlightInfo, DoGet or DoAction itself rejects the request with
\* Invalid (no handler invoked), the caller's output slot after the call is
\* what it was before the call.
C11_RejectLeavesSlot ==
    [][(/\ request'.entry \in {"GetFlightInfo", "DoGet", "DoAction"}
        /\ invoked' = <<>>
        /\ status' = Invalid)
       => slot' = slot]_vars

\* A rejected call made while the slot still holds an earlier call's result.
C11_Witness ==
    /\ request.entry = "GetFlightInfo"
    /\ Rejected
    /\ slot = "set"

----------------------------------------------------------------------------
(* Claims about the prepared-statement lifecycle (SpecLifecycle) *)

\* The request is an operation addressed to a prepared-statement handle:
\* get-info, pull-data or push-data with the prepared-statement command, or
\* the close action.
PreparedOp(req) ==
    \/ /\ req.entry \in {"GetFlightInfo", "DoGet", "DoPut"}
       /\ TagOf(req) = "CommandPreparedStatementQuery"
    \/ /\ req.entry = "DoAction"
       /\ req.type = "ClosePreparedStatement"

IsClose(req) == req.entry = "DoAction" /\ req.type = "ClosePreparedStatement"

IsCreate(req) == req.entry = "DoAction" /\ req.type = "CreatePreparedStatement"

\* The handle the request carries.
HandleOf(req) == req.bytes.value.arg

----------------------------------------------------------------------------
(* Claims about the envelope codec and the client (SpecClient) *)

\* The server entry point a transport call reaches recognizes the call's
\* bytes under the tag of the command packed into them.
RecognizedUnderTag(call) ==
    LET any == ParseFromArray(call.bytes).any
        branches == IF call.primitive = "GetFlightInfo" THEN GetFlightInfoBranches
                    ELSE DoPutBranches
    IN  IF call.primitive = "DoAction"
        THEN LET i == FirstActionMatch(call.type, DoActionBranches, 1)
             IN  i # 0 /\ Is(any, DoActionBranches[i].message)
                       /\ DoActionBranches[i].message = call.command.type
        ELSE LET i == FirstMatch(any, branches, 1)
             IN  i # 0 /\ branches[i].type = call.command.type

\* C12: every command a client operation packs into a descriptor or an action
\* body decodes back to a command equal to it in every field, and the server
\* entry point it is sent to recognizes it under its tag.
C12_RoundTripAndRecognized ==
    \A i \in 1..Len(calls) :
        /\ DecodedCommand(calls[i].bytes) = calls[i].command
        /\ RecognizedUnderTag(calls[i])

\* The command the receiving side decodes from the descriptor of the first
\* transport call.
SentByRead == DecodedCommand(calls[1].bytes)

\* C16: a read operation (GetCatalogs, GetSchemas, GetTables, GetTableTypes,
\* GetPrimaryKeys, GetExportedKeys, GetImportedKeys, GetCrossReference,
\* GetSqlInfo, Execute(query)) makes exactly one transport call, a get-info
\* call with the caller's options, whose descriptor decodes to the matching
\* command with every field equal to the argument supplied for it.
C16_ReadIssuesOneGetInfo ==
    op.name \in ReadOperations =>
        /\ Len(calls) = 1
        /\ calls[1].primitive = "GetFlightInfo"
        /\ calls[1].options = op.options
        /\ SentByRead.type = CommandOf[op.name]
        /\ \A n \in FieldNames(CommandOf[op.name]) : SentByRead.fields[n] = op.args[n]

\* GetPrimaryKeys with a catalog, no schema and a table, under the second
\* options object, has made its call.
C16_Witness ==
    /\ op.name = "GetPrimaryKeys"
    /\ op.options = "other_options"
    /\ op.args = [catalog |-> <<1>>, schema |-> << >>, table |-> 1]
    /\ Len(calls) = 1
    /\ SentByRead.fields.table = 1

\* C17: the descriptor of GetTables decodes to a CommandGetTables whose five
\* fields equal the arguments, table_types element by element in the same
\* order; the descriptor of GetSqlInfo decodes to the info codes in the
\* order given.
C17_ListsKeepOrder ==
    /\ op.name = "GetTables" =>
        LET sent == DecodedCommand(calls[1].bytes).fields
        IN  /\ DOMAIN sent = {"catalog", "schema_filter_pattern",
                              "table_name_filter_pattern", "include_schema", "table_types"}
            /\ sent.catalog = op.args.catalog
            /\ sent.schema_filter_pattern = op.args.schema_filter_pattern
            /\ sent.table_name_filter_pattern = op.args.table_name_filter_pattern
            /\ sent.include_schema = op.args.include_schema
            /\ Len(sent.table_types) = Len(op.args.table_types)
            /\ \A k \in 1..Len(sent.table_types) :
                    sent.table_types[k] = op.args.table_types[k]
    /\ op.name = "GetSqlInfo" =>
        LET sent == DecodedCommand(calls[1].bytes).fields
        IN  /\ Len(sent.info) = Len(op.args.info)
            /\ \A k \in 1..Len(sent.info) : sent.info[k] = op.args.info[k]

\* GetTables was called with all five arguments supplied and two different
\* table types.
C17_Witness ==
    /\ op.name = "GetTables"
    /\ op.args.catalog = <<1>>
    /\ op.args.schema_filter_pattern = <<1>>
    /\ op.args.table_name_filter_pattern = <<1>>
    /\ op.args.include_schema
    /\ op.args.table_types = <<1, 0>>
    /\ DecodedCommand(calls[1].bytes).fields.table_types = <<1, 0>>

\* The wire entries of the payload a call carries.
PayloadOf(call) == ParseFromArray(call.bytes).any.value.arg

\* The optional arguments of an operation.
OptionalArguments(name) ==
    {n \in FieldNames(CommandOf[name]) :
        FieldsOf(CommandOf[name])[FieldNumber(CommandOf[name], n)].kind = "optional"}

\* C18: an optional argument (catalog, schema pattern, table pattern) that is
\* not supplied leaves no entry for its field in the payload, and the decoded
\* field is absent, not the empty string; one that is supplied, the empty
\* string included, is present with exactly that value.
C18_OptionalPresence ==
    op.name \in ReadOperations =>
        \A n \in OptionalArguments(op.name) :
            LET i == FieldNumber(CommandOf[op.name], n)
                entries == SelectSeq(PayloadOf(calls[1]), LAMBDA e : e.field = i)
                field == DecodedCommand(calls[1].bytes).fields[n]
            IN  /\ op.args[n] = << >> => (entries = << >> /\ field = << >> /\ field # <<0>>)
                /\ op.args[n] # << >> =>
                        /\ Len(entries) = 1
                        /\ entries[1].value = op.args[n][1]
                        /\ field = << op.args[n][1] >>

\* GetSchemas was called with the empty string as catalog and no schema pattern.
C18_Witness ==
    /\ op.name = "GetSchemas"
    /\ op.args.catalog = <<0>>
    /\ op.args.schema_filter_pattern = << >>
    /\ DecodedCommand(calls[1].bytes).fields.catalog = <<0>>
    /\ DecodedCommand(calls[1].bytes).fields.schema_filter_pattern = << >>

\* C19: ExecuteUpdate(query) makes exactly one transport call, a push-data
\* call with the caller's options whose descriptor decodes to a
\* CommandStatementUpdate carrying query; it reads one metadata buffer and
\* returns the 64-bit record_count the buffer was built from, bit for bit.
C19_UpdateReturnsRecordCount ==
    op.name = "ExecuteUpdate" =>
        /\ Len(calls) = 1
        /\ calls[1].primitive = "DoPut"
        /\ calls[1].options = op.options
        /\ DecodedCommand(calls[1].bytes) =
                [type |-> "CommandStatementUpdate", fields |-> [query |-> op.args.query]]
        /\ calls[1].reads = 1
        /\ returned.status = OK
        /\ returned.value = calls[1].response.record_count

\* ExecuteUpdate returned 100 from a buffer carrying record_count 100.
C19_Witness ==
    /\ op.name = "ExecuteUpdate"
    /\ op.args.query = 1
    /\ calls[1].response.record_count = <<100, 0, 0, 0>>
    /\ calls[1].response.buffer = << [field |-> 1, value |-> <<100>>] >>
    /\ returned.value = <<100, 0, 0, 0>>

\* C20: an Execute() of a prepared statement that holds a bound batch makes
\* exactly two transport calls, in this order: one push-data call carrying
\* the bound batch and the prepared-statement command of the handle, then one
\* get-info call with the prepared-statement command, both of the handle the
\* create result carried.
C20_BindThenExecuteOrder ==
    (op.name = "PreparedExecute" /\ stmt.bound # << >>) =>
        /\ Len(calls) = 2
        /\ calls[1].primitive = "DoPut"
        /\ calls[1].batch = stmt.bound
        /\ DecodedCommand(calls[1].bytes) =
                [type |-> "CommandPreparedStatementQuery",
                 fields |-> [prepared_statement_handle |->
                                mock.result.fields.prepared_statement_handle]]
        /\ calls[2].primitive = "GetFlightInfo"
        /\ DecodedCommand(calls[2].bytes) =
                [type |-> "CommandPreparedStatementQuery",
                 fields |-> [prepared_statement_handle |->
                                mock.result.fields.prepared_statement_handle]]

\* Execute() ran on handle 2 with a one-row batch bound.
C20_Witness ==
    /\ op.name = "PreparedExecute"
    /\ stmt.handle = 2
    /\ stmt.bound # << >>
    /\ stmt.bound[1].rows = <<1>>
    /\ Len(calls) = 2
    /\ calls[1].primitive = "DoPut"
    /\ calls[2].primitive = "GetFlightInfo"

----------------------------------------------------------------------------
(* Claims about the prepared statement a client holds *)

\* The prepared-statement command of the handle the mock's create result carried.
CommandOfCreatedHandle ==
    [type |-> "CommandPreparedStatementQuery",
     fields |-> [prepared_statement_handle |->
                    mock.result.fields.prepared_statement_handle]]

\* C21: an Execute() of a prepared statement that holds no parameter batch
\* makes no push-data call and exactly one get-info call, whose command is the
\* prepared-statement command of the created handle, and returns the FlightInfo
\* that call handed out.
C21_UnboundExecute ==
    [][(op'.name = "PreparedExecute" /\ stmt.bound = << >>) =>
          /\ Len(calls') = 1
          /\ calls'[1].primitive = "GetFlightInfo"
          /\ DecodedCommand(calls'[1].bytes) = CommandOfCreatedHandle
          /\ returned' = [status |-> OK, value |-> calls'[1].response.info]
          /\ mock'.counted = [mock.counted EXCEPT !.GetFlightInfo = @ + 1]]_vars

\* Execute() ran on handle 2 with no batch bound and returned FlightInfo 1.
C21_Witness ==
    /\ op.name = "PreparedExecute"
    /\ stmt.bound = << >>
    /\ stmt.handle = 2
    /\ calls[1].primitive = "GetFlightInfo"
    /\ returned.value = 1

C23_HandleOfCreateResult ==
    /\ op.name = "Prepare" =>
          /\ Len(calls) = 1
          /\ calls[1].primitive = "DoAction"
          /\ calls[1].type = "CreatePreparedStatement"
          /\ DecodedCommand(calls[1].bytes) =
                [type |-> "ActionCreatePreparedStatementRequest",
                 fields |-> [query |-> op.args.query]]
          /\ calls[1].reads = 1
          /\ calls[1].response.result = getDescriptor(mock.result)
          /\ stmt.handle = mock.result.fields.prepared_statement_handle
    /\ op.name \in {"PreparedExecute", "PreparedExecuteUpdate", "Close", "Release"} =>
          \A i \in DOMAIN calls :
              DecodedCommand(calls[i].bytes).fields.prepared_statement_handle =
                  mock.result.fields.prepared_statement_handle

\* Close() ran on the statement of handle 2 after an ExecuteUpdate().
C23_Witness ==
    /\ run = << "Prepare", "PreparedExecuteUpdate", "Close" >>
    /\ mock.result.fields.prepared_statement_handle = 2
    /\ Len(calls) = 1
    /\ calls[1].type = ClientCloseActionType

\* C24: an ExecuteUpdate() of a prepared statement makes exactly one push-data
\* call, with or without a bound batch, and returns the record_count of the
\* update result unmodified; with a bound batch, the schema passed to the
\* push-data call is the schema of that batch.
C24_PreparedUpdateOnePut ==
    [][op'.name = "PreparedExecuteUpdate" =>
          /\ Len(calls') = 1
          /\ calls'[1].primitive = "DoPut"
          /\ mock'.counted = [mock.counted EXCEPT !.DoPut = @ + 1]
          /\ returned' = [status |-> OK, value |-> calls'[1].response.record_count]
          /\ stmt.bound # << >> => calls'[1].schema = stmt.bound[1].schema]_vars

\* ExecuteUpdate() ran with a batch of schema {field0, field1} bound and
\* returned 2^32.
C24_Witness ==
    /\ op.name = "PreparedExecuteUpdate"
    /\ stmt.bound # << >>
    /\ Len(stmt.bound[1].schema) = 2
    /\ calls[1].schema = stmt.bound[1].schema
    /\ returned.value = <<0, 0, 1, 0>>

\* ExecuteUpdate() ran with no batch bound.
C24_WitnessUnbound ==
    /\ op.name = "PreparedExecuteUpdate"
    /\ stmt.bound = << >>
    /\ calls[1].primitive = "DoPut"

\* C25: GetParameterSchema() makes no transport call and returns the parameter
\* schema the create result carried, field by field (names, order, types),
\* and nothing when the result carried none; the bytes it reads them from
\* never change while the statement lives, so every call returns the same.
C25_ParameterSchemaOfCreateResult ==
    [][/\ op'.name = "GetParameterSchema" =>
            /\ calls' = << >>
            /\ mock' = mock
            /\ returned'.status = OK
            /\ IF mock.result.fields.parameter_schema = << >>
               THEN returned'.value = << >>
               ELSE \E s \in ParameterSchemas :
                       /\ mock.result.fields.parameter_schema = SerializeSchema(s)
                       /\ returned'.value = << s >>
       /\ (stmt # << >> /\ stmt' # << >>) =>
            stmt'.parameter_schema = stmt.parameter_schema]_vars

\* GetParameterSchema() returned {id: int64} after a SetParameters and an
\* Execute.
C25_Witness ==
    /\ run = << "Prepare", "SetParameters", "PreparedExecute", "GetParameterSchema" >>
    /\ returned.value = << << Field("id", "int64", TRUE) >> >>

\* GetParameterSchema() of a statement whose create result carried no schema.
C25_WitnessAbsent ==
    /\ op.name = "GetParameterSchema"
    /\ mock.result.fields.parameter_schema = << >>
    /\ returned.value = << >>

----------------------------------------------------------------------------
(* Claims about the result schemas *)

\* The schemas callers were handed by function f.
FetchedFrom(f) == {fetched[i].schema : i \in {k \in DOMAIN fetched : fetched[k].function = f}}

ColumnNames(schema) == [i \in DOMAIN schema |-> schema[i].name]

ColumnTypes(schema) == [i \in DOMAIN schema |-> schema[i].type]

ColumnNullable(schema) == [i \in DOMAIN schema |-> schema[i].nullable]

\* C26: the GetTables result schema has the four columns catalog_name,
\* schema_name, table_name, table_type, in this order, all string and nullable;
\* the schema with the table schema included has the same four columns and a
\* fifth, table_schema, binary and nullable.
C26_TablesSchema ==
    /\ \A s \in FetchedFrom("GetTablesSchema") :
          /\ ColumnNames(s) = << "catalog_name", "schema_name", "table_name", "table_type" >>
          /\ \A i \in DOMAIN s : s[i].type = "utf8" /\ s[i].nullable
    /\ \A s \in FetchedFrom("GetTablesSchemaWithIncludedSchema") :
          /\ ColumnNames(s) = << "catalog_name", "schema_name", "table_name", "table_type",
                                 "table_schema" >>
          /\ \A i \in 1..4 : s[i].type = "utf8"
          /\ s[5].type = "binary"
          /\ \A i \in DOMAIN s : s[i].nullable

\* Both GetTables schemas were handed out.
C26_Witness ==
    /\ FetchedFrom("GetTablesSchema") # {}
    /\ FetchedFrom("GetTablesSchemaWithIncludedSchema") # {}

\* C27: the schema of GetImportedKeys and GetExportedKeys has thirteen columns:
\* pk_catalog_name, pk_schema_name (nullable), pk_table_name, pk_column_name
\* (not null), fk_catalog_name, fk_schema_name (nullable), fk_table_name,
\* fk_column_name (not null), all string; key_sequence (int32, not null);
\* fk_key_name, pk_key_name (string, nullable); update_rule, delete_rule
\* (uint8, not null).
C27_KeysSchema ==
    \A s \in FetchedFrom("GetImportedAndExportedKeysSchema") :
        /\ ColumnNames(s) =
              << "pk_catalog_name", "pk_schema_name", "pk_table_name", "pk_column_name",
                 "fk_catalog_name", "fk_schema_name", "fk_table_name", "fk_column_name",
                 "key_sequence", "fk_key_name", "pk_key_name", "update_rule",
                 "delete_rule" >>
        /\ ColumnTypes(s) =
              << "utf8", "utf8", "utf8", "utf8", "utf8", "utf8", "utf8", "utf8",
                 "int32", "utf8", "utf8", "uint8", "uint8" >>
        /\ ColumnNullable(s) =
              << TRUE, TRUE, FALSE, FALSE, TRUE, TRUE, FALSE, FALSE,
                 FALSE, TRUE, TRUE, FALSE, FALSE >>

\* The keys schema was handed out.
C27_Witness ==
    \E i \in DOMAIN fetched :
        /\ fetched[i].function = "GetImportedAndExportedKeysSchema"
        /\ Len(fetched[i].schema) = 13

\* C28: the GetCatalogs schema is the one column catalog_name (string,
\* nullable); the GetSchemas schema is the two columns catalog_name (string,
\* nullable) and schema_name (string, not null).
C28_CatalogsAndSchemas ==
    /\ \A s \in FetchedFrom("GetCatalogsSchema") :
          /\ ColumnNames(s) = << "catalog_name" >>
          /\ ColumnTypes(s) = << "utf8" >>
          /\ ColumnNullable(s) = << TRUE >>
    /\ \A s \in FetchedFrom("GetSchemasSchema") :
          /\ ColumnNames(s) = << "catalog_name", "schema_name" >>
          /\ ColumnTypes(s) = << "utf8", "utf8" >>
          /\ ColumnNullable(s) = << TRUE, FALSE >>

\* The GetCatalogs and the GetSchemas schema were handed out.
C28_Witness ==
    /\ FetchedFrom("GetCatalogsSchema") # {}
    /\ FetchedFrom("GetSchemasSchema") # {}

\* C29: the GetPrimaryKeys schema is the six columns catalog_name, schema_name,
\* table_name, column_name (string), key_sequence (int64), key_name (string);
\* every schema function hands out the same layout on every call, and a
\* schema handed out is never changed afterwards.
C29_PrimaryKeysAndStableLayouts ==
    [][/\ \A s \in FetchedFrom("GetPrimaryKeysSchema")' :
             /\ ColumnNames(s) = << "catalog_name", "schema_name", "table_name",
                                    "column_name", "key_sequence", "key_name" >>
             /\ ColumnTypes(s) = << "utf8", "utf8", "utf8", "utf8", "int64", "utf8" >>
       /\ \A i, j \in DOMAIN fetched' :
             fetched'[i].function = fetched'[j].function =>
                 fetched'[i].schema = fetched'[j].schema
       /\ \A i \in DOMAIN fetched : fetched'[i] = fetched[i]]_vars

\* The GetPrimaryKeys schema was handed out twice, with another call between.
C29_Witness ==
    /\ Len(fetched) = 3
    /\ fetched[1].function = "GetPrimaryKeysSchema"
    /\ fetched[2].function # "GetPrimaryKeysSchema"
    /\ fetched[3].function = "GetPrimaryKeysSchema"

----------------------------------------------------------------------------
(* Claims about concurrent calls *)

\* What the call of a frame does when it runs alone, for a handler that
\* returns r: the handler invocations, the Status and the actions vector.
Alone(req, r) ==
    LET res == CASE req.entry = "GetFlightInfo" ->
                        Dispatch(req.bytes, GetFlightInfoBranches, r)
                 [] req.entry = "DoGet" -> Dispatch(req.bytes, DoGetBranches, r)
                 [] req.entry = "DoPut" -> Dispatch(req.bytes, DoPutBranches, r)
                 [] req.entry = "DoAction" -> DispatchAction(req.type, req.bytes, r)
                 [] OTHER -> [invoked |-> << >>, status |-> OK]
    IN  [invoked |-> res.invoked, status |-> res.status,
         actions |-> IF req.entry = "ListActions" THEN ListActionsResult ELSE << >>]

\* C32: whatever other calls are in flight, a call in flight still holds the
\* Any parsed from its own bytes, and a call that returned invoked the
\* handler, with the command, and returned the Status (for what its handler
\* returned) and the actions it would have when run alone; no call is routed
\* by the tag of another call's request.
C32_InterleavingKeepsOutcome ==
    \A t \in Threads :
        /\ frames[t].pc = "parsed" =>
              anys[AnyOf(t)] = ParseFromArray(frames[t].request.bytes).any
        /\ frames[t].pc = "returned" =>
              \E r \in HandlerReturns :
                  Alone(frames[t].request, r) =
                      [invoked |-> frames[t].invoked, status |-> frames[t].status,
                       actions |-> frames[t].actions]

\* A GetFlightInfo call with a statement query returned from its handler
\* while a DoPut call with a statement update, made by the other thread, had
\* parsed its bytes and not yet walked its chain.
C32_Witness ==
    /\ frames["first"].pc = "returned"
    /\ frames["first"].overlapped
    /\ frames["first"].request.entry = "GetFlightInfo"
    /\ Len(frames["first"].invoked) = 1
    /\ frames["first"].invoked[1].handler = "GetFlightInfoStatement"
    /\ frames["second"].pc = "parsed"
    /\ frames["second"].request.entry = "DoPut"
    /\ TagOf(frames["second"].request) = "CommandStatementUpdate"

\* Both threads returned from calls that overlapped: a DoAction and a DoGet.
C32_WitnessBothReturned ==
    /\ frames["first"].pc = "returned"
    /\ frames["second"].pc = "returned"
    /\ frames["first"].overlapped
    /\ frames["first"].request.entry = "DoAction"
    /\ Len(frames["first"].invoked) = 1
    /\ frames["second"].request.entry = "DoGet"
    /\ Len(frames["second"].invoked) = 1

----------------------------------------------------------------------------
(* Claims about routing by entry point and by action type *)

\* The handler of the prepared-statement-query tag at each entry point.
PreparedHandlerAt ==
    [GetFlightInfo |-> "GetFlightInfoPreparedStatement",
     DoGet |-> "DoGetPreparedStatement",
     DoPut |-> "DoPutPreparedStatement"]

MetadataTags ==
    {"CommandGetCatalogs", "CommandGetSchemas", "CommandGetTables",
     "CommandGetTableTypes", "CommandGetSqlInfo", "CommandGetPrimaryKeys",
     "CommandGetExportedKeys", "CommandGetImportedKeys"}

\* Tags another entry point accepts that each entry point does not list.
NotListedAt ==
    [GetFlightInfo |-> {"CommandStatementUpdate", "TicketStatementQuery"},
     DoGet |-> {"CommandStatementQuery", "CommandStatementUpdate"},
     DoPut |-> {"CommandStatementQuery", "TicketStatementQuery"} \cup MetadataTags]

\* C33: routing depends on the entry point and the tag together: the
\* prepared-statement-query tag invokes GetFlightInfoPreparedStatement at
\* GetFlightInfo, DoGetPreparedStatement at DoGet and DoPutPreparedStatement at
\* DoPut, and a tag another entry point accepts but this one does not list is
\* rejected with Invalid, no handler invoked.
C33_RoutedByEntryAndTag ==
    request.entry \in DOMAIN PreparedHandlerAt =>
        /\ TagOf(request) = "CommandPreparedStatementQuery" =>
              InvokedOnly(PreparedHandlerAt[request.entry])
        /\ TagOf(request) \in NotListedAt[request.entry] => Rejected

\* DoGet was called with the prepared-statement-query tag.
C33_Witness ==
    /\ request.entry = "DoGet"
    /\ TagOf(request) = "CommandPreparedStatementQuery"
    /\ InvokedOnly("DoGetPreparedStatement")

\* DoGet was called with the statement-query tag, which GetFlightInfo accepts.
C33_WitnessRejected ==
    /\ request.entry = "DoGet"
    /\ request.bytes = PackFrom([type |-> "CommandStatementQuery", arg |-> 1])
    /\ Rejected

\* C34: DoAction chooses the handler by the action type name alone; when the
\* body is the envelope of another message (the other action's request, or
\* any other command), the handler named by the type is still the one
\* invoked, once, with a request of its own type whose fields are all unset.
C34_ActionTypeAloneSelects ==
    (/\ request.entry = "DoAction"
     /\ request.type \in DOMAIN ActionHandlerOf
     /\ TagOf(request) # ActionRequestOf[request.type]) =>
        /\ InvokedOnly(ActionHandlerOf[request.type])
        /\ invoked[1].command = DefaultMessage(ActionRequestOf[request.type])
        /\ status = invoked[1].returned

\* "CreatePreparedStatement" was sent with the envelope of a close request
\* that names handle 1.
C34_Witness ==
    /\ request.entry = "DoAction"
    /\ request.type = "CreatePreparedStatement"
    /\ request.bytes =
           PackFrom([type |-> "ActionClosePreparedStatementRequest", arg |-> 1])
    /\ InvokedOnly("CreatePreparedStatement")
    /\ invoked[1].command.arg = 0

\* "ClosePreparedStatement" was sent with the envelope of a create request.
C34_WitnessClose ==
    /\ request.entry = "DoAction"
    /\ request.type = "ClosePreparedStatement"
    /\ request.bytes =
           PackFrom([type |-> "ActionCreatePreparedStatementRequest", arg |-> 1])
    /\ InvokedOnly("ClosePreparedStatement")
    /\ invoked[1].command.arg = 0

----------------------------------------------------------------------------
(* Claims about the column metadata *)

BooleanSetters == {"IsAutoIncrement", "IsCaseSensitive", "IsReadOnly", "IsSearchable"}

BooleanGetters ==
    {"GetIsAutoIncrement", "GetIsCaseSensitive", "GetIsReadOnly", "GetIsSearchable"}

\* The pairs of the KeyValueMetadata the object of the last call points to.
PairsOfLast == maps[objects[last.object].map]

\* C30: a boolean setter (IsAutoIncrement, IsCaseSensitive, IsReadOnly,
\* IsSearchable) called with b on a fresh builder stores "YES" under its key
\* when b is true and "NO" when b is false; the matching getter returns the
\* string stored; and no string other than "YES" and "NO" is ever stored
\* under one of the four keys.
C30_BooleansAsYesNo ==
    /\ (last.call \in BooleanSetters /\ Len(PairsOfLast) = 1) =>
          PairsOfLast = << [key |-> KeyOf[last.call],
                            value |-> IF last.arg THEN "YES" ELSE "NO"] >>
    /\ (/\ last.call \in BooleanGetters
        /\ Len(PairsOfLast) = 1
        /\ PairsOfLast[1].key = KeyOf[last.call]) =>
          /\ last.result = [ok |-> TRUE, value |-> PairsOfLast[1].value]
          /\ last.result.value \in {"YES", "NO"}
    /\ \A m \in DOMAIN maps :
          \A i \in DOMAIN maps[m] :
              maps[m][i].key \in {KeyOf[g] : g \in BooleanGetters} =>
                  maps[m][i].value \in {"YES", "NO"}

\* IsReadOnly(true) on a fresh builder, then GetIsReadOnly() returned "YES".
C30_Witness ==
    /\ last.call = "GetIsReadOnly"
    /\ PairsOfLast = << [key |-> "IS_READ_ONLY", value |-> "YES"] >>
    /\ last.result = [ok |-> TRUE, value |-> "YES"]

\* IsSearchable(false) was called on a fresh builder.
C30_WitnessFalse ==
    /\ last.call = "IsSearchable"
    /\ last.arg = FALSE
    /\ PairsOfLast = << [key |-> "IS_SEARCHABLE", value |-> "NO"] >>

Setters == {"CatalogName", "SchemaName", "TableName", "Precision", "Scale"} \cup BooleanSetters

Getters ==
    {"GetCatalogName", "GetSchemaName", "GetTableName", "GetPrecision", "GetScale"}
        \cup BooleanGetters

\* The positions of the pairs stored under a key.
PositionsOf(pairs, key) == {i \in DOMAIN pairs : pairs[i].key = key}

\* The value passed to the most recent setter call for a key: the value of the
\* pair appended last under it.
MostRecent(pairs, key) ==
    pairs[CHOOSE i \in PositionsOf(pairs, key) :
              \A j \in PositionsOf(pairs, key) : j <= i].value

\* C31 (as stated): after any sequence of builder setter calls, each getter of
\* the resulting ColumnMetadata returns the value passed to the most recent
\* call of the matching setter, Precision and Scale as the decimal string of
\* the integer.
C31_GetterReturnsMostRecent ==
    /\ (last.call \in {"Precision", "Scale"}) =>
          PairsOfLast[Len(PairsOfLast)] =
              [key |-> KeyOf[last.call],
               value |-> IF last.arg = 10 THEN "10" ELSE "-1"]
    /\ (last.call \in Getters /\ PositionsOf(PairsOfLast, KeyOf[last.call]) # {}) =>
          last.result = [ok |-> TRUE,
                         value |-> MostRecent(PairsOfLast, KeyOf[last.call])]

\* The builders and the ColumnMetadata objects made so far.
Builders == {b \in DOMAIN objects : objects[b].class = "ColumnMetadataBuilder"}

Converted == {c \in DOMAIN objects : objects[c].class = "ColumnMetadata"}

\* C35: a ColumnMetadata obtained from a builder points to the builder's
\* metadata map, and keeps pointing to it; a setter called on the builder
\* afterwards appends to that one map, so that the getters and GetMetadataMap
\* of the ColumnMetadata obtained before see the pair; two builders made by
\* two ColumnMetadata::Create() calls never point to one map.
C35_ConvertedSharesMap ==
    [][/\ last'.call = "operator ColumnMetadata" =>
              /\ objects'[last'.result].class = "ColumnMetadata"
              /\ objects'[last'.result].map = objects[last'.object].map
              /\ maps' = maps
       /\ \A i \in DOMAIN objects : objects'[i] = objects[i]
       /\ last'.call \in Setters =>
              \A c \in Converted :
                  objects[c].map = objects[last'.object].map =>
                      /\ Len(maps'[objects'[c].map]) = Len(maps[objects[c].map]) + 1
                      /\ Get(maps'[objects'[c].map], KeyOf[last'.call]).ok
       /\ \A a, b \in {x \in DOMAIN objects' :
                            objects'[x].class = "ColumnMetadataBuilder"} :
              a # b => objects'[a].map # objects'[b].map]_vars

\* CatalogName("a") was called on a builder after a ColumnMetadata had been
\* obtained from it, and GetCatalogName() of that ColumnMetadata returned "a";
\* a second builder exists.
C35_Witness ==
    /\ Len(objects) >= 3
    /\ objects[1].class = "ColumnMetadataBuilder"
    /\ objects[2] = [class |-> "ColumnMetadata", map |-> 1]
    /\ objects[3].class = "ColumnMetadataBuilder"
    /\ maps[1] = << [key |-> "CATALOG_NAME", value |-> "a"] >>
    /\ last.call = "GetCatalogName"
    /\ last.object = 2
    /\ last.result = [ok |-> TRUE, value |-> "a"]

\* C36: the getter of a key no setter stored a pair under returns the
\* key-not-found error, never a string; and a setter call leaves what the
\* getters of the other eight keys return, on every map, as it was.
C36_MissingKeyIsError ==
    /\ []((/\ last.call \in Getters
           /\ PositionsOf(PairsOfLast, KeyOf[last.call]) = {}) =>
              /\ ~last.result.ok
              /\ last.result = [ok |-> FALSE, value |-> "KeyError"])
    /\ [][last'.call \in Setters =>
              \A m \in DOMAIN maps :
                  \A g \in Getters :
                      KeyOf[g] # KeyOf[last'.call] =>
                          /\ PositionsOf(maps'[m], KeyOf[g]) = PositionsOf(maps[m], KeyOf[g])
                          /\ \A i \in PositionsOf(maps[m], KeyOf[g]) :
                                 maps'[m][i] = maps[m][i]]_vars

\* TableName was the only setter called, and GetScale() returned the error.
C36_Witness ==
    /\ last.call = "GetScale"
    /\ Len(PairsOfLast) = 1
    /\ PairsOfLast[1].key = "TABLE_NAME"
    /\ last.result = [ok |-> FALSE, value |-> "KeyError"]

\* IsReadOnly was called on a builder whose map already held a catalog name.
C36_WitnessSetter ==
    /\ last.call = "IsReadOnly"
    /\ Len(PairsOfLast) = 2
    /\ PairsOfLast[1].key = "CATALOG_NAME"

====
